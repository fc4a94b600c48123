------------------------------ MODULE Quiescence ------------------------------
(***************************************************************************)
(* Acknowledged cancellation.  The gateway gives the lease of a DwarfStar  *)
(* engine back when the patched ds4-server has said that it works on       *)
(* nothing (DwarfStarEngine.wait_idle), and otherwise stops it.  The       *)
(* server accepts connections in their order, gives each a thread, and     *)
(* one worker takes the jobs these threads queue; it does not see a closed *)
(* socket at once, and its thread may leave a job behind.                  *)
(***************************************************************************)
EXTENDS Integers, Sequences, FiniteSets

CONSTANTS
  Call,       \* the requests the gateway forwards, one lease each
  Build,      \* the servers that may be installed: "patched", and others
  MaxPolls,   \* of one wait: 10 s divided by 0.1 s
  MaxStarts,  \* bound of the model on starts of the engine
  Nobody

ASSUME NobodyCalls == {Nobody, "status"} \cap Call = {}  \* the name of a poll, below
ASSUME PollsAndStarts == MaxPolls \in Nat /\ MaxStarts \in Nat

VARIABLES
  lease,    \* free, starting, calling, closing, polling or stopping
  call,     \* the call the lease is for
  done,     \* the calls that had their lease
  polls,    \* of this wait
  starts,
  server,   \* the build that runs, or "down"
  backlog,  \* connections it has not accepted
  thread,   \* of each call: none, parsing, waiting
  jobs,     \* the queue
  slot,     \* the job the worker has, or Nobody
  busy,     \* slots[0].busy
  asking,   \* is the thread of the current poll at work
  pollers,  \* the threads of polls that have not ended
  reply     \* of the current poll

gateway == <<lease, call, done, polls, starts>>
work == <<thread, jobs, slot, busy>>
asked == <<asking, pollers, reply>>
vars == <<gateway, server, backlog, work, asked>>

Poll == "status"
NoReply == [active |-> -1, queued |-> -1]
Threads == {c \in Call : thread[c] # "none"}
InBacklog(c) == \E i \in DOMAIN backlog : backlog[i] = c
Present == Threads \cup {c \in Call : InBacklog(c) \/ slot = c
                                      \/ \E i \in DOMAIN jobs : jobs[i] = c}

Emptied ==
  /\ backlog' = <<>> /\ jobs' = <<>> /\ slot' = Nobody /\ busy' = FALSE
  /\ thread' = [c \in Call |-> "none"]
  /\ asking' = FALSE /\ pollers' = 0

Init ==
  /\ lease = "free" /\ call = Nobody /\ done = {} /\ polls = 0 /\ starts = 0
  /\ server = "down" /\ backlog = <<>> /\ jobs = <<>> /\ slot = Nobody /\ busy = FALSE
  /\ thread = [c \in Call |-> "none"]
  /\ asking = FALSE /\ pollers = 0 /\ reply = NoReply

-------------------------------------------------------------------------------
(* The server.                                                             *)

Accept ==
  /\ backlog # <<>>
  /\ backlog' = Tail(backlog)
  /\ IF Head(backlog) = Poll
     THEN asking' = TRUE /\ pollers' = pollers + 1 /\ UNCHANGED thread
     ELSE thread' = [thread EXCEPT ![Head(backlog)] = "parsing"] /\ UNCHANGED <<asking, pollers>>
  /\ UNCHANGED <<gateway, server, jobs, slot, busy, reply>>

Queue(c) ==
  /\ thread[c] = "parsing"
  /\ thread' = [thread EXCEPT ![c] = "waiting"]
  /\ jobs' = Append(jobs, c)
  /\ UNCHANGED <<gateway, server, backlog, slot, busy, asked>>

(* A thread ends: a malformed request, an answered one, a closed socket.   *)
ThreadEnds(c) ==
  /\ thread[c] # "none"
  /\ thread' = [thread EXCEPT ![c] = "none"]
  /\ UNCHANGED <<gateway, server, backlog, jobs, slot, busy, asked>>

(* The slot is marked when the job starts to run, after the queue's mutex. *)
F_TakeUnmarked ==
  /\ jobs # <<>> /\ slot = Nobody /\ ~busy
  /\ slot' = Head(jobs) /\ jobs' = Tail(jobs)
  /\ UNCHANGED <<gateway, server, backlog, thread, busy, asked>>

Take ==
  /\ jobs # <<>> /\ slot = Nobody /\ ~busy
  /\ slot' = Head(jobs) /\ jobs' = Tail(jobs) /\ busy' = TRUE
  /\ UNCHANGED <<gateway, server, backlog, thread, asked>>

(* The job is over; its checkpoint and the slot's cache are not yet kept.  *)
Housekeep ==
  /\ slot # Nobody
  /\ slot' = Nobody
  /\ UNCHANGED <<gateway, server, backlog, thread, jobs, busy, asked>>

Idle ==
  /\ slot = Nobody /\ busy
  /\ busy' = FALSE
  /\ UNCHANGED <<gateway, server, backlog, thread, jobs, slot, asked>>

(* Only the threads are counted: a job without its thread makes it wrong.  *)
F_CountsThreads ==
  [active |-> Cardinality(Threads) + pollers - 1 - Len(jobs), queued |-> Len(jobs)]

Counts ==
  LET queued == Len(jobs)
      active == Cardinality(Threads) + pollers - 1 - queued
      running == IF busy THEN 1 ELSE 0
  IN  [active |-> IF active < running THEN running ELSE active, queued |-> queued]

(* What another build would say; wait_ready keeps it from being asked.     *)
Replies ==
  IF server = "patched" THEN {Counts} ELSE {NoReply} \cup [active : {0, 1}, queued : {0}]

Answer ==
  /\ asking /\ asking' = FALSE
  /\ reply' \in Replies
  /\ UNCHANGED <<gateway, server, backlog, work, pollers>>

PollerEnds ==
  /\ pollers > (IF asking THEN 1 ELSE 0)
  /\ pollers' = pollers - 1
  /\ UNCHANGED <<gateway, server, backlog, work, asking, reply>>

(* A reply may be on its way to the gateway, or lost.                      *)
Exit ==
  /\ server # "down"
  /\ server' = "down" /\ Emptied
  /\ reply' \in {reply, NoReply}
  /\ UNCHANGED gateway

Server ==
  \/ Accept \/ Take \/ Housekeep \/ Idle \/ Answer \/ PollerEnds \/ Exit
  \/ \E c \in Call : Queue(c) \/ ThreadEnds(c)

-------------------------------------------------------------------------------
(* The gateway.                                                            *)

Start ==
  /\ lease = "free" /\ server = "down" /\ starts < MaxStarts
  /\ server' \in Build
  /\ lease' = "starting" /\ starts' = starts + 1
  /\ UNCHANGED <<call, done, polls, backlog, work, asked>>

(* Any server that answers is taken for one that counts.                   *)
F_ReadyUnchecked ==
  /\ lease = "starting" /\ server # "down"
  /\ lease' = "free"
  /\ UNCHANGED <<call, done, polls, starts, server, backlog, work, asked>>

(* wait_ready: the capabilities are those of the installed patch.          *)
Ready ==
  /\ lease = "starting" /\ server = "patched"
  /\ lease' = "free"
  /\ UNCHANGED <<call, done, polls, starts, server, backlog, work, asked>>

NotReady ==
  /\ lease = "starting"
  /\ lease' = "stopping"
  /\ UNCHANGED <<call, done, polls, starts, server, backlog, work, asked>>

Forward(c) ==
  /\ lease = "free" /\ server # "down" /\ c \notin done
  /\ lease' = "calling" /\ call' = c
  /\ backlog' = Append(backlog, c)
  /\ UNCHANGED <<done, polls, starts, server, work, asked>>

(* The answer ends, whole or cut; Lease.close begins.                      *)
Leave ==
  /\ lease = "calling"
  /\ lease' = "closing" /\ done' = done \cup {call} /\ polls' = 0
  /\ UNCHANGED <<call, starts, server, backlog, work, asked>>

(* A poll that finds the server down fails.                                *)
BeginPoll ==
  /\ lease = "closing" /\ polls < MaxPolls
  /\ polls' = polls + 1
  /\ IF server = "down"
     THEN lease' = "stopping" /\ UNCHANGED <<backlog, reply>>
     ELSE lease' = "polling" /\ backlog' = Append(backlog, Poll) /\ reply' = NoReply
  /\ UNCHANGED <<call, done, starts, server, work, asking, pollers>>

(* An idle server may exit before is_running() is asked.                   *)
Confirm ==
  /\ lease = "polling" /\ reply.active = 0 /\ reply.queued = 0
  /\ lease' = IF server = "down" THEN "stopping" ELSE "free"
  /\ call' = Nobody /\ reply' = NoReply
  /\ UNCHANGED <<done, polls, starts, server, backlog, work, asking, pollers>>

PollAgain ==
  /\ lease = "polling" /\ reply # NoReply /\ reply.active + reply.queued > 0
  /\ lease' = "closing"
  /\ UNCHANGED <<call, done, polls, starts, server, backlog, work, asked>>

(* The 10 s are counted between two polls only.                            *)
F_GiveUpBetween ==
  /\ lease = "closing"
  /\ lease' = "stopping"
  /\ UNCHANGED <<call, done, polls, starts, server, backlog, work, asked>>

(* 10 s have passed, the poll fails or its reply is malformed, or the wait *)
(* is cancelled.                                                           *)
GiveUp ==
  /\ lease \in {"closing", "polling"}
  /\ lease' = "stopping"
  /\ UNCHANGED <<call, done, polls, starts, server, backlog, work, asked>>

(* Runtime._stop; the lock is released after it.                           *)
Stop ==
  /\ lease = "stopping"
  /\ lease' = "free" /\ call' = Nobody /\ polls' = 0
  /\ server' = "down" /\ Emptied /\ reply' = NoReply
  /\ UNCHANGED <<done, starts>>

Gateway ==
  \/ Start \/ Ready \/ NotReady \/ Leave
  \/ BeginPoll \/ Confirm \/ PollAgain \/ GiveUp \/ Stop
  \/ \E c \in Call : Forward(c)

Next == Server \/ Gateway

(* The gateway's waits have deadlines; of the server nothing is assumed.   *)
Spec == Init /\ [][Next]_vars /\ WF_vars(GiveUp) /\ WF_vars(Stop)

-------------------------------------------------------------------------------
(* Types; that the server reports a count below zero is not possible.      *)
TypeOK ==
  /\ lease \in {"free", "starting", "calling", "closing", "polling", "stopping"}
  /\ call \in Call \cup {Nobody} /\ done \subseteq Call
  /\ polls \in 0 .. MaxPolls /\ starts \in 0 .. MaxStarts
  /\ server \in Build \cup {"down"}
  /\ backlog \in Seq(Call \cup {Poll})
  /\ thread \in [Call -> {"none", "parsing", "waiting"}]
  /\ jobs \in Seq(Call) /\ slot \in Call \cup {Nobody} /\ busy \in BOOLEAN
  /\ asking \in BOOLEAN /\ pollers \in Nat
  /\ reply = NoReply \/ (reply.active \in Nat /\ reply.queued \in Nat)

(* A free lease means an engine with nothing to do: no connection of an    *)
(* earlier call it may yet accept, no thread that may yet queue a job, no  *)
(* job queued or running, no checkpoint being kept ("one engine's          *)
(* admission lease remains owned until its work is quiescent").  And there *)
(* is no hidden second queue: the work inside the engine is of one call,   *)
(* and while its lease is open of that one.                                *)
Quiescent ==
  /\ lease = "free" => Present = {} /\ ~busy
  /\ Cardinality(Present) <= 1
  /\ call # Nobody => Present \subseteq {call}

(* A lease that is being closed is given back, however the server behaves. *)
WaitEnds == lease = "closing" ~> lease = "free"
===============================================================================
