---------------------------- MODULE QuiescenceProofs ----------------------------
(***************************************************************************)
(* Why a lease that was given back leaves nothing in the engine, for any   *)
(* calls, builds and bounds: the server accepts a poll after the call that *)
(* came before it, so that what it then counts contains all there is.      *)
(***************************************************************************)
EXTENDS Quiescence, FiniteSetTheorems, SequenceTheorems, TLAPS

Leases == {"free", "starting", "calling", "closing", "polling", "stopping"}

Records ==
  /\ lease \in Leases
  /\ call \in Call \cup {Nobody}
  /\ done \subseteq Call /\ polls \in 0 .. MaxPolls /\ starts \in 0 .. MaxStarts
  /\ server \in Build \cup {"down"}
  /\ thread \in [Call -> {"none", "parsing", "waiting"}]
  /\ slot \in Call \cup {Nobody} /\ busy \in BOOLEAN
  /\ asking \in BOOLEAN /\ pollers \in Nat
  /\ reply \in [active : Nat, queued : Nat] \cup {NoReply}

(* A lease has a call while it is used and closed, and then only.          *)
Leased ==
  /\ lease \in {"calling", "closing", "polling"} => call # Nobody
  /\ lease \in {"free", "starting"} => call = Nobody

(* What the backlog may hold: the call of this lease and, after it, the    *)
(* poll in progress.                                                       *)
Ordered ==
  \/ backlog = <<>>
  \/ call # Nobody /\ backlog = <<call>> /\ lease \in {"calling", "closing", "stopping"}
  \/ backlog = <<Poll>> /\ lease \in {"polling", "stopping"}
  \/ call # Nobody /\ backlog = <<call, Poll>> /\ lease \in {"polling", "stopping"}

(* The work in the server is of this lease's call: accepted once, queued   *)
(* once.                                                                   *)
Owned ==
  /\ Threads \subseteq {call} \ {Nobody}
  /\ jobs = <<>> \/ (call # Nobody /\ jobs = <<call>>)
  /\ slot \in {call, Nobody}
  /\ slot # Nobody => busy
  /\ call = Nobody => ~busy
  /\ call # Nobody /\ InBacklog(call) => thread[call] = "none" /\ jobs = <<>>
  /\ call # Nobody /\ thread[call] = "parsing" => jobs = <<>>

(* A poll is asked while a wait polls; if it is with a thread, the call is *)
(* no longer in the backlog.  A reply ends it.  Nothing is asked of a      *)
(* server that is down.                                                    *)
Asked ==
  /\ server = "down" => backlog = <<>> /\ ~asking
  /\ asking => backlog = <<>> /\ pollers > 0 /\ lease \in {"polling", "stopping"}
  /\ lease = "polling" /\ reply # NoReply => ~asking /\ backlog = <<>>

(* Only a server that counts as the patch says is asked.                   *)
Patched ==
  lease \in {"free", "calling", "closing", "polling"} => server \in {"patched", "down"}

(* What the gateway believes.                                              *)
Believed ==
  lease = "polling" /\ reply.active = 0 /\ reply.queued = 0 => Present = {} /\ ~busy

QuiescenceInv == Records /\ Leased /\ Ordered /\ Owned /\ Asked /\ Patched /\ Believed

LEMMA Tuples ==
  ASSUME NEW x, NEW y
  PROVE  /\ Append(<<>>, x) = <<x>> /\ Append(<<x>>, y) = <<x, y>>
         /\ Head(<<x>>) = x /\ Tail(<<x>>) = <<>>
         /\ Head(<<x, y>>) = x /\ Tail(<<x, y>>) = <<y>>
         /\ <<x>> # <<>> /\ <<x, y>> # <<>> /\ <<x>> # <<x, y>>
         /\ Len(<<>>) = 0 /\ Len(<<x>>) = 1
<1>1. Append(<<>>, x) = <<x>> /\ Append(<<x>>, y) = <<x, y>>
  <2>1. <<>> \in Seq({x, y}) /\ <<x>> \in Seq({x, y})
    OBVIOUS
  <2>2. Append(<<>>, x) = <<x>>
    BY <2>1
  <2>3. Append(<<x>>, y) = <<x, y>>
    <3> DEFINE v == Append(<<x>>, y)
    <3>1. v \in Seq({x, y}) /\ Len(v) = 2 /\ v[1] = x /\ v[2] = y
      BY <2>1, AppendProperties
    <3>2. <<x, y>> \in Seq({x, y}) /\ Len(<<x, y>>) = 2 /\ <<x, y>>[1] = x /\ <<x, y>>[2] = y
      OBVIOUS
    <3> HIDE DEF v
    <3>3. v = <<x, y>>
      BY <3>1, <3>2, SeqEqual
    <3> QED  BY <3>3 DEF v
  <2> QED  BY <2>2, <2>3
<1>2. Head(<<x>>) = x /\ Head(<<x, y>>) = x
  OBVIOUS
<1>3. Tail(<<x>>) = <<>>
  OBVIOUS
<1>4. Tail(<<x, y>>) = <<y>>
  OBVIOUS
<1>5. Len(<<>>) = 0 /\ Len(<<x>>) = 1 /\ Len(<<x, y>>) = 2
  OBVIOUS
<1> QED  BY <1>1, <1>2, <1>3, <1>4, <1>5

(* What the backlog says, without its indices.                             *)
LEMMA Listed ==
  ASSUME NEW c, NEW x
  PROVE  /\ ~\E i \in DOMAIN <<>> : <<>>[i] = c
         /\ (\E i \in DOMAIN <<x>> : <<x>>[i] = c) <=> x = c
         /\ (\E i \in DOMAIN <<x, Poll>> : <<x, Poll>>[i] = c) <=> x = c \/ Poll = c
<1>1. DOMAIN <<>> = {} /\ DOMAIN <<x>> = {1} /\ DOMAIN <<x, Poll>> = {1, 2}
  OBVIOUS
<1>2. <<x>>[1] = x /\ <<x, Poll>>[1] = x /\ <<x, Poll>>[2] = Poll
  OBVIOUS
<1> QED  BY <1>1, <1>2

LEMMA Waiting ==
  ASSUME NEW c \in Call
  PROVE  /\ backlog \in {<<>>, <<Poll>>} => ~InBacklog(c)
         /\ backlog \in {<<call>>, <<call, Poll>>} => (InBacklog(c) <=> c = call)
BY Listed, NobodyCalls DEF InBacklog, Poll

(* All that is present is the call of this lease.                          *)
LEMMA PresentIsCalls ==
  ASSUME Records, Ordered, Owned
  PROVE  Present \subseteq {call} \ {Nobody}
<1>1. ASSUME NEW c \in Call, InBacklog(c) PROVE c = call /\ call # Nobody
  BY <1>1, Waiting, NobodyCalls DEF Ordered
<1>2. ASSUME NEW c \in Call, slot = c PROVE c = call /\ call # Nobody
  BY <1>2, NobodyCalls DEF Owned
<1>3. ASSUME NEW c \in Call, \E i \in DOMAIN jobs : jobs[i] = c PROVE c = call /\ call # Nobody
  BY <1>3, Listed, NobodyCalls DEF Owned
<1> QED  BY <1>1, <1>2, <1>3 DEF Present, Owned

LEMMA QuiescenceInit == Init => QuiescenceInv
<1> SUFFICES ASSUME Init PROVE QuiescenceInv
  OBVIOUS
<1> USE DEF Init
<1>1. Records
  <2>1. polls \in 0 .. MaxPolls /\ starts \in 0 .. MaxStarts
    BY PollsAndStarts
  <2>2. reply \in [active : Nat, queued : Nat] \cup {NoReply}
    OBVIOUS
  <2> QED  BY <2>1, <2>2 DEF Records, Leases
<1>2. Leased /\ Ordered /\ Asked /\ Patched /\ Believed
  BY DEF Leased, Ordered, Asked, Patched, Believed
<1>3. Owned
  BY DEF Owned, Threads
<1> QED  BY <1>1, <1>2, <1>3 DEF QuiescenceInv

(* What the server counts when the thread of a poll answers.               *)
LEMMA CountsAll ==
  ASSUME Records, Ordered, Owned, Asked, asking
  PROVE  /\ Counts \in [active : Nat, queued : Nat]
         /\ Counts.active = 0 /\ Counts.queued = 0 => Present = {} /\ ~busy
<1> DEFINE queued == Len(jobs)
           active == Cardinality(Threads) + pollers - 1 - queued
           running == IF busy THEN 1 ELSE 0
<1>1. Counts = [active |-> IF active < running THEN running ELSE active, queued |-> queued]
  BY DEF Counts
<1>2. (jobs = <<>> /\ queued = 0) \/ (jobs # <<>> /\ queued = 1)
  BY Tuples DEF Owned
<1>3. IsFiniteSet(Threads) /\ Cardinality(Threads) \in Nat
  <2>1. Threads \subseteq {call} /\ IsFiniteSet({call})
    BY FS_Singleton DEF Owned
  <2> QED  BY <2>1, FS_Subset, FS_CardinalityType
<1>4. pollers \in Nat \ {0}
  BY DEF Records, Asked
<1>5. active \in Int /\ running \in {0, 1}
  BY <1>2, <1>3, <1>4 DEF Records
<1>6. Counts \in [active : Nat, queued : Nat]
  BY <1>1, <1>2, <1>5
<1>7. ASSUME Counts.active = 0, Counts.queued = 0 PROVE Present = {} /\ ~busy
  <2>1. queued = 0 /\ running = 0 /\ active <= 0
    BY <1>1, <1>5, <1>7
  <2>2. ~busy /\ jobs = <<>> /\ slot = Nobody
    BY <1>2, <2>1 DEF Owned, Records
  <2>3. Threads = {}
    BY <1>3, <1>4, <2>1, FS_EmptySet
  <2>4. ASSUME NEW c \in Call PROVE ~InBacklog(c) /\ slot # c /\ ~\E i \in DOMAIN jobs : jobs[i] = c
    BY <2>2, Waiting, Listed, NobodyCalls DEF Asked
  <2> QED  BY <2>2, <2>3, <2>4 DEF Present
<1> QED  BY <1>6, <1>7

(* The end of a server leaves nothing of what it had.                      *)
LEMMA EmptiedIsEmpty ==
  ASSUME Emptied, Records
  PROVE  /\ Owned' /\ Present' = {} /\ ~busy' /\ backlog' = <<>> /\ ~asking' /\ pollers' = 0
         /\ thread' \in [Call -> {"none", "parsing", "waiting"}] /\ slot' = Nobody
<1> USE DEF Emptied
<1>1. Threads' = {} /\ \A c \in Call : ~InBacklog(c)'
  BY Listed DEF Threads, InBacklog
<1>2. Present' = {}
  BY <1>1, Listed, NobodyCalls DEF Present
<1>3. Owned'
  BY <1>1, Listed DEF Owned, InBacklog
<1> QED  BY <1>2, <1>3

(* A step that leaves the server's work alone leaves what is said of it.   *)
LEMMA WorkStays ==
  ASSUME Owned, UNCHANGED <<call, backlog, work>>
  PROVE  Owned' /\ Present' = Present
<1>1. Threads' = Threads /\ \A c : InBacklog(c)' = InBacklog(c)
  BY DEF Threads, InBacklog, work
<1>2. Present' = Present
  BY <1>1 DEF Present, work
<1>3. Owned'
  BY <1>1 DEF Owned, work
<1> QED  BY <1>2, <1>3

(* Nothing is in a server from which a lease was given back.               *)
LEMMA FreeIsQuiet ==
  ASSUME QuiescenceInv, call = Nobody
  PROVE  Present = {} /\ ~busy /\ Threads = {} /\ jobs = <<>> /\ slot = Nobody
BY PresentIsCalls DEF QuiescenceInv, Owned

-------------------------------------------------------------------------------
(* One lemma for each action of the server ...                             *)

LEMMA AcceptKeeps == ASSUME QuiescenceInv, Accept PROVE QuiescenceInv'
<1> USE DEF QuiescenceInv, Accept, gateway
<1>1. CASE backlog = <<Poll>>
  <2>1. Head(backlog) = Poll /\ backlog' = <<>>
    BY <1>1, Tuples
  <2>2. asking' = TRUE /\ pollers' = pollers + 1 /\ UNCHANGED thread
    BY <2>1
  <2>3. Records' /\ Leased' /\ Patched'
    BY <2>2 DEF Records, Leased, Patched
  <2>4. lease \in {"polling", "stopping"} /\ (lease = "polling" => reply = NoReply) /\ server # "down"
    BY <1>1, Tuples, NobodyCalls DEF Ordered, Asked, Records, Poll
  <2>5. Ordered' /\ Asked' /\ Believed'
    BY <2>1, <2>2, <2>4 DEF Ordered, Asked, Believed, Records, NoReply
  <2>6. Threads' = Threads /\ (\A c \in Call : ~InBacklog(c)')
    BY <2>1, <2>2, Listed DEF Threads, InBacklog
  <2>7. Owned'
    BY <2>2, <2>6 DEF Owned, Records
  <2> QED  BY <2>3, <2>5, <2>7
<1>2. CASE backlog # <<Poll>>
  <2>1. /\ call # Nobody /\ call \in Call /\ Head(backlog) = call /\ call # Poll
        /\ \/ backlog = <<call>> /\ backlog' = <<>>
           \/ backlog = <<call, Poll>> /\ backlog' = <<Poll>> /\ lease \in {"polling", "stopping"}
    <3>1. /\ call # Nobody /\ call \in Call
          /\ backlog = <<call>> \/ (backlog = <<call, Poll>> /\ lease \in {"polling", "stopping"})
      BY <1>2 DEF Ordered, Records
    <3>2. call # Poll
      BY <3>1, NobodyCalls DEF Poll
    <3>3. CASE backlog = <<call>>
      BY <3>1, <3>2, <3>3, Tuples
    <3>4. CASE backlog = <<call, Poll>>
      <4>1. Head(backlog) = call /\ Tail(backlog) = <<Poll>> /\ backlog # <<call>>
        BY <3>4, Tuples
      <4> QED  BY <3>1, <3>2, <3>4, <4>1
    <3> QED  BY <3>1, <3>3, <3>4
  <2>2. thread' = [thread EXCEPT ![call] = "parsing"] /\ UNCHANGED <<asking, pollers>>
    BY <2>1
  <2>3. InBacklog(call) /\ ~InBacklog(call)'
    BY <2>1, Listed, NobodyCalls DEF InBacklog, Poll
  <2>4. thread[call] = "none" /\ jobs = <<>>
    BY <2>1, <2>3 DEF Owned
  <2>5. Threads' = {call}
    BY <2>1, <2>2 DEF Threads, Owned, Records
  <2>6. Records' /\ Leased' /\ Patched'
    BY <2>1, <2>2 DEF Records, Leased, Patched
  <2>7. Ordered'
    BY <2>1 DEF Ordered
  <2>8. Asked' /\ Believed'
    <3>1. (lease = "polling" => reply = NoReply) /\ ~asking /\ server # "down"
      BY Tuples DEF Asked
    <3> QED  BY <2>1, <2>2, <3>1 DEF Asked, Believed, NoReply
  <2>9. Owned'
    BY <2>1, <2>3, <2>4, <2>5 DEF Owned
  <2> QED  BY <2>6, <2>7, <2>8, <2>9
<1> QED  BY <1>1, <1>2

LEMMA QueueKeeps ==
  ASSUME QuiescenceInv, NEW c \in Call, Queue(c) PROVE QuiescenceInv'
<1> USE DEF QuiescenceInv, Queue, gateway, asked
<1>1. c = call /\ call # Nobody /\ c \in Threads
  BY DEF Threads, Owned
<1>2. jobs = <<>> /\ jobs' = <<call>> /\ Threads' = Threads /\ thread'[call] = "waiting"
  BY <1>1, Tuples DEF Owned, Threads, Records
<1>3. ~InBacklog(call) /\ ~InBacklog(call)'
  BY <1>1 DEF Owned, InBacklog
<1>4. Records' /\ Leased' /\ Patched' /\ Ordered' /\ Asked'
  BY DEF Records, Leased, Patched, Ordered, Asked
<1>5. Owned'
  BY <1>1, <1>2, <1>3 DEF Owned
<1>6. Believed'
  BY <1>1 DEF Believed, Present
<1> QED  BY <1>4, <1>5, <1>6

LEMMA ThreadEndsKeeps ==
  ASSUME QuiescenceInv, NEW c \in Call, ThreadEnds(c) PROVE QuiescenceInv'
<1> USE DEF QuiescenceInv, ThreadEnds, gateway, asked
<1>1. c = call /\ call # Nobody /\ c \in Threads
  BY DEF Threads, Owned
<1>2. Threads' = {} /\ thread'[call] = "none"
  BY <1>1 DEF Threads, Owned, Records
<1>3. InBacklog(call)' = InBacklog(call)
  BY DEF InBacklog
<1>4. Records' /\ Leased' /\ Patched' /\ Ordered' /\ Asked'
  BY DEF Records, Leased, Patched, Ordered, Asked
<1>5. Owned'
  BY <1>1, <1>2, <1>3 DEF Owned
<1>6. Believed'
  BY <1>1 DEF Believed, Present
<1> QED  BY <1>4, <1>5, <1>6

(* Taking a job, its end and the slot's.                                   *)
LEMMA WorkerKeeps ==
  ASSUME QuiescenceInv, Take \/ Housekeep \/ Idle PROVE QuiescenceInv'
<1> USE DEF QuiescenceInv, gateway, asked
<1>1. UNCHANGED <<gateway, server, backlog, thread, asked>>
  BY DEF Take, Housekeep, Idle
<1>2. Threads' = Threads /\ \A c : InBacklog(c)' = InBacklog(c)
  BY <1>1 DEF Threads, InBacklog
<1>3. Leased' /\ Patched' /\ Ordered' /\ Asked'
  BY <1>1 DEF Leased, Patched, Ordered, Asked
<1>4. CASE Take
  <2>1. call # Nobody /\ call \in Call /\ jobs = <<call>> /\ slot' = call /\ jobs' = <<>> /\ busy'
    BY <1>4, Tuples DEF Take, Owned, Records
  <2>2. Records'
    BY <1>1, <2>1, <1>4 DEF Records, Take
  <2>3. Owned'
    BY <1>1, <1>2, <2>1 DEF Owned
  <2>4. call \in Present
    BY <2>1, Listed DEF Present
  <2>5. Believed'
    BY <1>1, <2>4 DEF Believed
  <2> QED  BY <1>3, <2>2, <2>3, <2>5
<1>5. CASE Housekeep
  <2>1. slot # Nobody /\ slot' = Nobody /\ busy /\ UNCHANGED <<jobs, busy>>
    BY <1>5 DEF Housekeep, Owned
  <2>2. Records' /\ Owned'
    BY <1>1, <1>2, <2>1 DEF Records, Owned
  <2>3. Believed'
    BY <1>1, <2>1 DEF Believed
  <2> QED  BY <1>3, <2>2, <2>3
<1>6. CASE Idle
  <2>1. slot = Nobody /\ busy /\ busy' = FALSE /\ UNCHANGED <<jobs, slot>>
    BY <1>6 DEF Idle
  <2>2. Records' /\ Owned'
    BY <1>1, <1>2, <2>1 DEF Records, Owned
  <2>3. Believed'
    BY <1>1, <2>1 DEF Believed
  <2> QED  BY <1>3, <2>2, <2>3
<1> QED  BY <1>4, <1>5, <1>6

LEMMA PollerKeeps ==
  ASSUME QuiescenceInv, Answer \/ PollerEnds PROVE QuiescenceInv'
<1> USE DEF QuiescenceInv, gateway, work
<1>1. UNCHANGED <<gateway, server, backlog, work>>
  BY DEF Answer, PollerEnds
<1>2. Owned' /\ Present' = Present
  BY <1>1, WorkStays
<1>3. Leased' /\ Patched' /\ Ordered'
  BY <1>1 DEF Leased, Patched, Ordered
<1>4. CASE Answer
  <2> USE <1>4 DEF Answer
  <2>1. CASE server = "patched"
    <3>1. reply' = Counts
      BY <2>1 DEF Replies
    <3>2. reply' \in [active : Nat, queued : Nat]
      BY <3>1, CountsAll
    <3>3. Records'
      BY <1>1, <3>2 DEF Records
    <3>4. Asked'
      BY <1>1 DEF Asked
    <3>5. Believed'
      BY <1>1, <1>2, <3>1, CountsAll DEF Believed
    <3> QED  BY <1>2, <1>3, <3>3, <3>4, <3>5
  <2>2. CASE server # "patched"
    <3>1. reply' \in {NoReply} \cup [active : {0, 1}, queued : {0}]
      BY <2>2 DEF Replies
    <3>2. reply' \in [active : Nat, queued : Nat] \cup {NoReply}
      BY <3>1
    <3>3. Records'
      BY <1>1, <3>2 DEF Records
    <3>4. lease \notin {"free", "calling", "closing", "polling"}
      BY <2>2 DEF Patched, Asked
    <3>5. Asked' /\ Believed'
      BY <1>1, <3>4 DEF Asked, Believed
    <3> QED  BY <1>2, <1>3, <3>3, <3>5
  <2> QED  BY <2>1, <2>2
<1>5. CASE PollerEnds
  <2>1. pollers' \in Nat /\ (asking => pollers' > 0) /\ UNCHANGED <<asking, reply>>
    BY <1>5 DEF PollerEnds, Records
  <2>2. Records' /\ Asked' /\ Believed'
    BY <1>1, <1>2, <2>1 DEF Records, Asked, Believed
  <2> QED  BY <1>2, <1>3, <2>2
<1> QED  BY <1>4, <1>5

LEMMA ExitKeeps == ASSUME QuiescenceInv, Exit PROVE QuiescenceInv'
<1> USE DEF QuiescenceInv, Exit, gateway
<1>1. /\ Owned' /\ Present' = {} /\ ~busy' /\ backlog' = <<>> /\ ~asking' /\ pollers' = 0
      /\ thread' \in [Call -> {"none", "parsing", "waiting"}] /\ slot' = Nobody
  BY EmptiedIsEmpty
<1>2. reply' \in [active : Nat, queued : Nat] \cup {NoReply}
  BY DEF Records
<1>3. busy' \in BOOLEAN /\ asking' \in BOOLEAN
  BY DEF Emptied
<1>4. Records'
  BY <1>1, <1>2, <1>3 DEF Records
<1>5. Leased' /\ Ordered' /\ Asked' /\ Patched' /\ Believed'
  BY <1>1 DEF Leased, Ordered, Asked, Patched, Believed
<1> QED  BY <1>1, <1>4, <1>5

(* ... and of the gateway.                                                 *)

LEMMA StartKeeps ==
  ASSUME QuiescenceInv, Start \/ Ready \/ NotReady PROVE QuiescenceInv'
<1> USE DEF QuiescenceInv, work, asked
<1>1. UNCHANGED <<call, done, polls, backlog, work, asked>> /\ lease' \in {"starting", "free", "stopping"}
  BY DEF Start, Ready, NotReady
<1>2. call = Nobody /\ lease \in {"free", "starting"}
  BY DEF Leased, Start, Ready, NotReady
<1>3. server' \in Build \cup {"down"} /\ starts' \in 0 .. MaxStarts
  BY PollsAndStarts DEF Start, Ready, NotReady, Records
<1>4. Records'
  BY <1>1, <1>3 DEF Records, Leases
<1>5. Owned' /\ Present' = Present
  BY <1>1, WorkStays
<1>6. backlog = <<>> /\ ~asking
  BY <1>2 DEF Ordered, Asked
<1>7. Leased' /\ Ordered' /\ Asked' /\ Believed'
  BY <1>1, <1>2, <1>6 DEF Leased, Ordered, Asked, Believed
<1>8. Patched'
  BY DEF Patched, Start, Ready, NotReady
<1> QED  BY <1>4, <1>5, <1>7, <1>8

LEMMA ForwardKeeps ==
  ASSUME QuiescenceInv, NEW c \in Call, Forward(c) PROVE QuiescenceInv'
<1> USE DEF QuiescenceInv, Forward, work, asked
<1>1. call = Nobody /\ backlog = <<>> /\ ~asking
  BY DEF Leased, Ordered, Asked
<1>2. Threads = {} /\ jobs = <<>> /\ slot = Nobody /\ ~busy
  BY <1>1, FreeIsQuiet
<1>3. backlog' = <<c>> /\ c # Nobody
  BY <1>1, Tuples, NobodyCalls
<1>4. Records' /\ Leased' /\ Patched'
  BY <1>3 DEF Records, Leased, Patched, Leases
<1>5. Ordered' /\ Asked' /\ Believed'
  BY <1>1, <1>3 DEF Ordered, Asked, Believed
<1>6. Threads' = {} /\ thread'[c] = "none"
  BY <1>2 DEF Threads
<1>7. Owned'
  BY <1>2, <1>3, <1>6 DEF Owned
<1> QED  BY <1>4, <1>5, <1>7

LEMMA LeaveKeeps ==
  ASSUME QuiescenceInv, Leave \/ PollAgain \/ GiveUp PROVE QuiescenceInv'
<1> USE DEF QuiescenceInv, work, asked
<1>1. UNCHANGED <<call, starts, server, backlog, work, asked>>
  BY DEF Leave, PollAgain, GiveUp
<1>2. call # Nobody
  BY DEF Leased, Leave, PollAgain, GiveUp
<1>3. lease' \in {"closing", "stopping"} /\ done' \subseteq Call /\ polls' \in 0 .. MaxPolls
  BY <1>2, PollsAndStarts DEF Leave, PollAgain, GiveUp, Records
<1>4. Records'
  BY <1>1, <1>3 DEF Records, Leases
<1>5. Owned'
  BY <1>1, WorkStays
<1>6. Leased' /\ Believed' /\ Patched'
  BY <1>1, <1>2, <1>3 DEF Leased, Believed, Patched, Leave, PollAgain, GiveUp
<1>7. Ordered' /\ Asked'
  <2>1. CASE Leave
    BY <1>1, <2>1 DEF Ordered, Asked, Leave
  <2>2. CASE PollAgain
    BY <1>1, <2>2 DEF Ordered, Asked, PollAgain
  <2>3. CASE GiveUp
    BY <1>1, <2>3 DEF Ordered, Asked, GiveUp
  <2> QED  BY <2>1, <2>2, <2>3
<1> QED  BY <1>4, <1>5, <1>6, <1>7

LEMMA BeginPollKeeps == ASSUME QuiescenceInv, BeginPoll PROVE QuiescenceInv'
<1> USE DEF QuiescenceInv, BeginPoll, work
<1>1. call # Nobody /\ ~asking /\ backlog \in {<<>>, <<call>>}
  BY DEF Leased, Asked, Ordered
<1>2. polls' \in 0 .. MaxPolls
  BY PollsAndStarts DEF Records
<1>3. CASE server = "down"
  <2>1. lease' = "stopping" /\ UNCHANGED <<backlog, reply>>
    BY <1>3
  <2>2. Records' /\ Leased' /\ Patched'
    BY <1>2, <2>1 DEF Records, Leased, Patched, Leases
  <2>3. Ordered' /\ Asked' /\ Believed'
    BY <1>1, <2>1 DEF Ordered, Asked, Believed
  <2>4. Owned'
    BY <2>1, WorkStays
  <2> QED  BY <2>2, <2>3, <2>4
<1>4. CASE server # "down"
  <2>1. lease' = "polling" /\ backlog' = Append(backlog, Poll) /\ reply' = NoReply
    BY <1>4
  <2>2. \/ backlog = <<>> /\ backlog' = <<Poll>>
        \/ backlog = <<call>> /\ backlog' = <<call, Poll>>
    BY <1>1, <2>1, Tuples
  <2>3. Records' /\ Leased' /\ Patched'
    BY <1>1, <1>2, <2>1 DEF Records, Leased, Patched, Leases
  <2>4. Ordered' /\ Asked' /\ Believed'
    BY <1>1, <1>4, <2>1, <2>2 DEF Ordered, Asked, Believed, NoReply
  <2>5. InBacklog(call)' = InBacklog(call) /\ Threads' = Threads
    BY <1>1, <2>2, Listed, NobodyCalls DEF InBacklog, Threads, Poll, Records
  <2>6. Owned'
    BY <2>5 DEF Owned
  <2> QED  BY <2>3, <2>4, <2>6
<1> QED  BY <1>3, <1>4

LEMMA ConfirmKeeps == ASSUME QuiescenceInv, Confirm PROVE QuiescenceInv'
<1> USE DEF QuiescenceInv, Confirm, work
<1>1. Present = {} /\ ~busy /\ backlog = <<>> /\ ~asking
  BY DEF Believed, Asked, NoReply
<1>2. Threads = {} /\ slot = Nobody /\ jobs = <<>>
  <2>1. Threads = {}
    BY <1>1 DEF Present
  <2>2. slot = Nobody
    BY <1>1 DEF Owned
  <2>3. ASSUME jobs # <<>> PROVE FALSE
    <3>1. call \in Call /\ jobs = <<call>>
      BY <2>3 DEF Owned, Records
    <3> QED  BY <1>1, <3>1, Listed DEF Present
  <2> QED  BY <2>1, <2>2, <2>3
<1>3. Records' /\ Leased' /\ Patched'
  BY DEF Records, Leased, Patched, Leases
<1>4. Ordered' /\ Asked' /\ Believed'
  BY <1>1 DEF Ordered, Asked, Believed
<1>5. Threads' = {} /\ ~InBacklog(call)'
  BY <1>1, <1>2, Listed DEF Threads, InBacklog
<1>6. Owned'
  BY <1>1, <1>2, <1>5 DEF Owned
<1> QED  BY <1>3, <1>4, <1>6

LEMMA StopKeeps == ASSUME QuiescenceInv, Stop PROVE QuiescenceInv'
<1> USE DEF QuiescenceInv, Stop
<1>1. /\ Owned' /\ Present' = {} /\ ~busy' /\ backlog' = <<>> /\ ~asking' /\ pollers' = 0
      /\ thread' \in [Call -> {"none", "parsing", "waiting"}] /\ slot' = Nobody
  BY EmptiedIsEmpty
<1>2. polls' \in 0 .. MaxPolls /\ reply' \in {NoReply}
  BY PollsAndStarts
<1>3. busy' \in BOOLEAN /\ asking' \in BOOLEAN
  BY DEF Emptied
<1>4. Records'
  BY <1>1, <1>2, <1>3 DEF Records, Leases
<1>5. Leased' /\ Ordered' /\ Asked' /\ Patched' /\ Believed'
  BY <1>1 DEF Leased, Ordered, Asked, Patched, Believed
<1> QED  BY <1>1, <1>4, <1>5

LEMMA QuiescenceStep == ASSUME QuiescenceInv, [Next]_vars PROVE QuiescenceInv'
<1>1. CASE UNCHANGED vars
  <2> USE <1>1 DEF vars, gateway, work, asked, QuiescenceInv
  <2>1. Owned' /\ Present' = Present
    BY WorkStays
  <2> QED  BY <2>1 DEF Records, Leased, Ordered, Asked, Patched, Believed
<1>2. CASE Server
  BY <1>2, AcceptKeeps, QueueKeeps, ThreadEndsKeeps, WorkerKeeps, PollerKeeps, ExitKeeps DEF Server
<1>3. CASE Gateway
  BY <1>3, StartKeeps, ForwardKeeps, LeaveKeeps, BeginPollKeeps, ConfirmKeeps, StopKeeps DEF Gateway
<1> QED  BY <1>1, <1>2, <1>3 DEF Next

-------------------------------------------------------------------------------
(* The invariant of the gateway's lease and the server's work.             *)
THEOREM QuiescenceSafe == Spec => []QuiescenceInv
<1>1. QuiescenceInv /\ [Next]_vars => QuiescenceInv'
  BY QuiescenceStep
<1> QED  BY <1>1, QuiescenceInit, PTL DEF Spec

(* Whatever the server's threads do and however polls end, an engine whose *)
(* lease is free works on nothing, and never on two calls.                 *)
THEOREM QuietSafe == Spec => []Quiescent
<1>1. ASSUME QuiescenceInv PROVE Quiescent
  <2>1. Present \subseteq {call} \ {Nobody}
    BY <1>1, PresentIsCalls DEF QuiescenceInv
  <2>2. Cardinality(Present) <= 1
    <3>1. IsFiniteSet({call}) /\ Cardinality({call}) = 1 /\ Present \subseteq {call}
      BY <2>1, FS_Singleton
    <3> QED  BY <3>1, FS_Subset
  <2>3. lease = "free" => Present = {} /\ ~busy
    BY <1>1, FreeIsQuiet DEF QuiescenceInv, Leased
  <2> QED  BY <2>1, <2>2, <2>3 DEF Quiescent
<1> QED  BY <1>1, QuiescenceSafe, PTL

=================================================================================
