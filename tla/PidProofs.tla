-------------------------------- MODULE PidProofs --------------------------------
(***************************************************************************)
(* Why litmoe stop reaches what it should, for any gateways, models,       *)
(* numbers and threads: two engines that could touch each other's file     *)
(* are both contested, so that the file of any other one changes only by   *)
(* the steps of its own start and stop and by the command.                 *)
(***************************************************************************)
EXTENDS EnginePids, TLAPS

Records ==
  /\ process \in [Pid -> {"unused", "running", "exited", "gone", "other"}]
  /\ model \in [Pid -> Model \cup {None}]
  /\ file \in [Model -> Pid \cup {None, Blank}]
  /\ pc \in [Gateway -> {"idle", "opening", "recording", "up", "stopping"}]
  /\ handle \in [Gateway -> Pid \cup {None}]
  /\ stopper \in [Thread -> [at : {"none", "term", "wait", "wait again", "clear"}, pid : Pid \cup {None}]]
  /\ cli \in [at : {"off", "loop", "signal", "unlink", "aborted", "done"},
              model : Model \cup {None}, pid : Pid \cup {None}]
  /\ todo \subseteq Model /\ told \subseteq Pid /\ found \subseteq Pid
  /\ recorded \subseteq Pid /\ survived \subseteq Pid
  /\ orphaned \subseteq Pid /\ contested \subseteq Pid

Used(p) == process[p] # "unused"
Handled(p) == \E g \in Gateway : handle[g] = p
Stopping(p) == \E t \in Thread : stopper[t].pid = p
Alive(p) == Handled(p) \/ Stopping(p) \/ (p \in orphaned /\ Running(p))
Starting(g) == pc[g] \in {"opening", "recording"}
Commanded == cli.at \in {"loop", "signal", "unlink"}

(* Whatever is remembered of a number, an engine has had it.               *)
Remembered ==
  /\ \A p \in Pid : Handled(p) \/ Stopping(p) \/ p \in orphaned \/ p \in recorded => Used(p)
  /\ \A p \in Pid : Used(p) => model[p] \in Model
  /\ \A m \in Model : file[m] \in Pid => file[m] \in recorded /\ model[file[m]] = m
  /\ found \subseteq recorded

(* A gateway has one engine, and an engine one gateway, or none if that    *)
(* was killed.                                                             *)
OneGateway ==
  /\ \A g \in Gateway : pc[g] # "idle" => handle[g] # None
  /\ \A g, h \in Gateway : handle[g] = handle[h] /\ handle[g] # None => g = h
  /\ \A p \in Pid : Running(p) => Handled(p) \/ p \in orphaned

(* While its number is recorded, an engine is not stopped, and its file is *)
(* the one its gateway opened.                                             *)
Recording ==
  \A g \in Gateway : Starting(g) =>
    /\ handle[g] \notin recorded /\ ~Stopping(handle[g])
    /\ model[handle[g]] \in todo => handle[g] \in contested
    /\ pc[g] = "recording" /\ handle[g] \notin contested => file[model[handle[g]]] = Blank

(* Two engines of one model that may both touch its file.                  *)
Apart ==
  \A p, q \in Pid : p # q /\ Alive(p) /\ Alive(q) /\ model[p] = model[q] => {p, q} \subseteq contested

(* A stop removes the file of an engine that ended, or outlived it.        *)
Clearing ==
  \A t \in Thread :
    /\ stopper[t].at = "none" <=> stopper[t].pid = None
    /\ At(t, "clear") => ~Running(stopper[t].pid) \/ stopper[t].pid \in survived

(* What the command does to a file it does to the engine that it read      *)
(* there, and an engine it has found is yet to be handled.                 *)
Commanding ==
  /\ cli.at \in {"off", "aborted", "done"} => todo = {}
  /\ cli.at \in {"signal", "unlink"} => cli.model \in todo
  /\ cli.at = "signal" => cli.pid # None
  /\ cli.at = "unlink" /\ cli.pid # None => cli.pid \in told
  /\ cli.at \in {"signal", "unlink"} =>
       \A p \in recorded \ (told \cup survived \cup contested) :
         Running(p) /\ model[p] = cli.model => cli.pid = p
  /\ Commanded => \A p \in found \ (contested \cup told) : Running(p) =>
       /\ model[p] \in todo /\ file[model[p]] \in {p, None}
       /\ cli.at # "loop" /\ model[p] = cli.model => cli.pid = p

(* A number in a file is that of an engine that has a gateway, or had one  *)
(* that was killed.                                                        *)
Leftover ==
  \A m \in Model : file[m] \in Pid => file[m] \in orphaned \/ Handled(file[m])

PidInv ==
  /\ Records /\ Remembered /\ OneGateway /\ Recording /\ Apart /\ Clearing
  /\ Commanding /\ Leftover /\ Tracked /\ StopReachesAll

LEMMA NoneIsNoPid == None \notin Pid /\ Blank \notin Pid /\ None \notin Model /\ None # Blank
BY Names

(* What Records says of single values.                                     *)
LEMMA Typed ==
  ASSUME Records
  PROVE  /\ \A p \in Pid : model[p] \in Model \cup {None}
         /\ \A g \in Gateway : handle[g] \in Pid \cup {None}
         /\ \A t \in Thread : stopper[t].pid \in Pid \cup {None}
         /\ \A m \in Model : file[m] \in Pid \cup {None, Blank}
         /\ cli.pid \in Pid \cup {None}
         /\ told \subseteq Pid /\ found \subseteq Pid /\ recorded \subseteq Pid
BY DEF Records

LEMMA PidInit == Init => PidInv
<1> SUFFICES ASSUME Init PROVE PidInv
  OBVIOUS
<1> USE NoneIsNoPid DEF Init, Off, NoStop
<1>1. Records
  BY DEF Records
<1>2. \A p \in Pid : ~Handled(p) /\ ~Stopping(p) /\ ~Running(p) /\ ~Used(p)
  BY DEF Handled, Stopping, Running, Used
<1>3. Remembered
  BY <1>2 DEF Remembered
<1>4. OneGateway /\ Recording /\ Clearing
  BY <1>2 DEF OneGateway, Recording, Starting, Clearing, At
<1>5. Apart
  BY <1>2 DEF Apart, Alive
<1>6. Commanding /\ Leftover /\ Tracked /\ StopReachesAll
  BY DEF Commanding, Commanded, Leftover, Tracked, StopReachesAll
<1> QED  BY <1>1, <1>3, <1>4, <1>5, <1>6 DEF PidInv

(* An engine that runs can touch its file, and does so alone unless it is  *)
(* contested.                                                              *)
LEMMA RunningIsAlive ==
  ASSUME PidInv, NEW p \in Pid, Running(p)
  PROVE  Alive(p) /\ Used(p)
BY DEF PidInv, OneGateway, Alive, Running, Used

LEMMA Alone ==
  ASSUME PidInv, NEW p \in Pid, NEW q \in Pid, Alive(q), Running(p) \/ Alive(p),
         model[p] = model[q], p \notin contested
  PROVE  p = q
BY RunningIsAlive DEF PidInv, Apart

(* Processes end, and threads go on.                                       *)
LEMMA Quieter ==
  ASSUME PidInv,
         \A p \in Pid : Running(p)' => Running(p),
         \A p \in Pid : Used(p)' <=> Used(p),
         \A t \in Thread : stopper'[t].pid = stopper[t].pid,
         survived \subseteq survived',
         UNCHANGED <<model, file, pc, handle, command, recorded, orphaned, contested>>
  PROVE  /\ Remembered' /\ OneGateway' /\ Recording' /\ Apart'
         /\ Commanding' /\ Leftover' /\ Tracked' /\ StopReachesAll'
<1> USE DEF PidInv, command
<1>1. \A p : Handled(p)' = Handled(p)
  BY DEF Handled
<1>2. \A p : Stopping(p)' = Stopping(p)
  BY DEF Stopping
<1>3. \A p \in Pid : Alive(p)' => Alive(p)
  BY <1>1, <1>2 DEF Alive
<1>4. Remembered'
  BY <1>1, <1>2 DEF Remembered
<1>5. OneGateway' /\ Leftover'
  BY <1>1 DEF OneGateway, Leftover
<1>6. Recording'
  BY <1>2 DEF Recording, Starting
<1>7. Apart'
  BY <1>3 DEF Apart
<1>8. Tracked' /\ StopReachesAll'
  BY DEF Tracked, StopReachesAll, Records
<1>9. Commanding'
  BY DEF Commanding, Commanded, Records
<1> QED  BY <1>4, <1>5, <1>6, <1>7, <1>8, <1>9

LEMMA EndsKeeps ==
  ASSUME PidInv, NEW p \in Pid, Exits(p) \/ Reused(p)
  PROVE  PidInv'
<1> USE DEF PidInv, Exits, Reused, gateways, causes
<1>1. Records'
  BY DEF Records, command
<1>2. \A q \in Pid : (Running(q)' => Running(q)) /\ (Used(q)' <=> Used(q))
  BY DEF Records, Running, Used
<1>3. Clearing'
  BY <1>2, NoneIsNoPid, Typed DEF Clearing, At
<1> QED  BY <1>1, <1>2, <1>3, Quieter

LEMMA PollKeeps ==
  ASSUME PidInv, NEW g \in Gateway, Poll(g)
  PROVE  PidInv'
<1> USE DEF PidInv, Poll, gateways, causes
<1>1. Records'
  BY DEF Records, command
<1>2. \A q \in Pid : (Running(q)' => Running(q)) /\ (Used(q)' <=> Used(q))
  BY DEF Records, Running, Used
<1>3. Clearing'
  BY <1>2, NoneIsNoPid, Typed DEF Clearing, At
<1> QED  BY <1>1, <1>2, <1>3, Quieter


(* A gateway starts an engine.  If somebody else has its file, all engines *)
(* of the model are contested.                                             *)
LEMMA StartKeeps ==
  ASSUME PidInv, NEW g \in Gateway, NEW m \in Model, NEW p \in Pid, Start(g, m, p)
  PROVE  PidInv'
<1> USE NoneIsNoPid DEF PidInv, Start, command
<1>1. ~Used(p) /\ ~Handled(p) /\ ~Stopping(p) /\ p \notin orphaned \cup recorded \cup found
  BY DEF Used, Remembered
<1>2. Used(p)' /\ Running(p)' /\ model'[p] = m /\ handle'[g] = p
  BY DEF Used, Running, Records
<1>3. \A q \in Pid \ {p} : model'[q] = model[q] /\ (Used(q)' <=> Used(q)) /\ (Running(q)' <=> Running(q))
  BY DEF Used, Running, Records
<1>4. \A h \in Gateway \ {g} : handle'[h] = handle[h] /\ pc'[h] = pc[h]
  BY DEF Records
<1>5. Handled(p)' /\ (\A q \in Pid \ {p} : Handled(q)' <=> Handled(q))
  BY <1>2, <1>4 DEF Handled
<1>6. \A q \in Pid : Stopping(q)' <=> Stopping(q)
  BY DEF Stopping
<1>7. \A q \in Pid \ {p} : Alive(q)' <=> Alive(q)
  BY <1>3, <1>5, <1>6 DEF Alive
<1>8. Records'
  <2>1. contested' \subseteq Pid
    BY DEF Records
  <2>2. UNCHANGED <<file, stopper, cli, todo, told, found, recorded, survived, orphaned>>
    OBVIOUS
  <2>3. /\ process' \in [Pid -> {"unused", "running", "exited", "gone", "other"}]
        /\ model' \in [Pid -> Model \cup {None}] /\ handle' \in [Gateway -> Pid \cup {None}]
    BY DEF Records
  <2>4. pc' \in [Gateway -> {"idle", "opening", "recording", "up", "stopping"}]
    BY DEF Records
  <2>5. Records
    OBVIOUS
  <2> QED  BY ONLY <2>1, <2>2, <2>3, <2>4, <2>5 DEF Records
<1>9. Remembered'
  <2>1. \A q \in Pid : (Handled(q) \/ Stopping(q) \/ q \in orphaned \/ q \in recorded)' => Used(q)'
    BY <1>2, <1>3, <1>5, <1>6 DEF Remembered
  <2>2. \A q \in Pid : Used(q)' => model'[q] \in Model
    BY <1>2, <1>3 DEF Remembered
  <2>3. \A l \in Model : file[l] \in Pid => file[l] \in recorded /\ model'[file[l]] = l
    BY <1>1, <1>3 DEF Remembered
  <2> QED  BY <2>1, <2>2, <2>3 DEF Remembered
<1>10. OneGateway'
  <2>1. \A h \in Gateway : pc'[h] # "idle" => handle'[h] # None
    BY <1>2, <1>4 DEF OneGateway
  <2>2. \A h \in Gateway \ {g} : handle[h] # p
    BY <1>1 DEF Handled
  <2>3. \A h, k \in Gateway : handle'[h] = handle'[k] /\ handle'[h] # None => h = k
    BY <1>2, <1>4, <2>2 DEF OneGateway
  <2>4. \A q \in Pid : Running(q)' => Handled(q)' \/ q \in orphaned'
    BY <1>3, <1>5 DEF OneGateway
  <2> QED  BY <2>1, <2>3, <2>4 DEF OneGateway
<1>11. contested \subseteq contested' /\
       (Rivals(m) => p \in contested' /\ \A q \in Pid : model[q] = m => q \in contested')
  OBVIOUS
<1>12. \A q \in Pid : Alive(q) /\ model[q] = m => Rivals(m)
  BY DEF Alive, Handled, Stopping, Rivals
<1>13. Recording'
  <2> SUFFICES ASSUME NEW h \in Gateway, Starting(h)'
               PROVE  /\ handle'[h] \notin recorded' /\ ~Stopping(handle[h])'
                      /\ model'[handle'[h]] \in todo' => handle'[h] \in contested'
                      /\ (pc'[h] = "recording" /\ handle'[h] \notin contested')
                           => file'[model'[handle'[h]]] = Blank
    BY DEF Recording
  <2>1. CASE h = g
    <3>1. handle'[h] = p /\ pc'[h] = "opening"
      BY <2>1 DEF Records
    <3>2. m \in todo => Rivals(m)
      BY DEF Rivals
    <3> QED  BY <1>1, <1>2, <1>6, <1>11, <3>1, <3>2 DEF Stopping
  <2>2. CASE h # g
    <3>1. Starting(h) /\ handle'[h] = handle[h] /\ handle[h] \in Pid /\ handle[h] # p
      BY <1>1, <1>4, <2>2, Typed DEF Starting, OneGateway, Handled
    <3>2. model'[handle[h]] = model[handle[h]]
      BY <1>3, <3>1
    <3> QED  BY <1>4, <1>6, <1>11, <2>2, <3>1, <3>2 DEF Recording, Stopping
  <2> QED  BY <2>1, <2>2
<1>14. Apart'
  <2> SUFFICES ASSUME NEW q \in Pid, NEW r \in Pid, q # r, Alive(q)', Alive(r)', model'[q] = model'[r]
               PROVE  q \in contested' /\ r \in contested'
    BY DEF Apart
  <2>1. CASE q = p
    BY <1>2, <1>3, <1>7, <1>11, <1>12, <2>1
  <2>2. CASE r = p
    BY <1>2, <1>3, <1>7, <1>11, <1>12, <2>2
  <2>3. CASE q # p /\ r # p
    BY <1>3, <1>7, <1>11, <2>3 DEF Apart
  <2> QED  BY <2>1, <2>2, <2>3
<1>15. Clearing'
  <2>1. \A t \in Thread : stopper[t].pid \in Pid => stopper[t].pid # p
    BY <1>1 DEF Stopping
  <2> QED  BY <1>3, <2>1, Typed DEF Clearing, At
<1>16. Leftover' /\ Tracked' /\ StopReachesAll'
  <2>1. \A l \in Model : file[l] \in Pid => file[l] # p
    BY <1>1 DEF Remembered
  <2>2. Leftover'
    BY <1>5, <2>1 DEF Leftover
  <2>3. Tracked'
    BY <1>1, <1>3, <1>11, Typed DEF Tracked
  <2>4. StopReachesAll'
    BY <1>1, <1>3, <1>11, Typed DEF StopReachesAll
  <2> QED  BY <2>2, <2>3, <2>4
<1>17. Commanding'
  <2>1. ASSUME NEW q \in recorded \ (told \cup survived \cup contested'), Running(q)'
        PROVE  q \in recorded \ (told \cup survived \cup contested) /\ q \in Pid /\ Running(q) /\ model'[q] = model[q]
    BY <1>1, <1>3, <1>11, <2>1, Typed
  <2>2. ASSUME NEW q \in found \ (contested' \cup told), Running(q)'
        PROVE  q \in found \ (contested \cup told) /\ q \in Pid /\ Running(q) /\ model'[q] = model[q]
    BY <1>1, <1>3, <1>11, <2>2, Typed
  <2> QED  BY <2>1, <2>2 DEF Commanding, Commanded
<1> QED
  BY <1>8, <1>9, <1>10, <1>13, <1>14, <1>15, <1>16, <1>17

(* A gateway that starts an engine empties or writes its file: it is the   *)
(* only one to do so unless its engine is contested.                       *)
LEMMA WriteKeeps ==
  ASSUME PidInv, NEW g \in Gateway, OpenFile(g) \/ Record(g)
  PROVE  PidInv'
<1> DEFINE p == handle[g]
           m == model[p]
<1> USE NoneIsNoPid DEF PidInv, command
<1>1. p \in Pid /\ Starting(g) /\ m \in Model /\ p \notin recorded /\ Handled(p) /\ Alive(p)
  <2>1. Starting(g) /\ p \in Pid
    BY Typed DEF OpenFile, Record, Starting, OneGateway
  <2>2. Handled(p) /\ Alive(p)
    BY DEF Handled, Alive
  <2>3. m \in Model
    BY <2>1, <2>2 DEF Remembered
  <2> QED  BY <2>1, <2>2, <2>3 DEF Recording
<1>2. /\ UNCHANGED <<process, model, handle, stopper, command, survived, orphaned, contested>>
      /\ pc' = [pc EXCEPT ![g] = IF pc[g] = "opening" THEN "recording" ELSE "up"]
      /\ file' \in [Model -> Pid \cup {None, Blank}]
      /\ \A l \in Model \ {m} : file'[l] = file[l]
      /\ \/ file'[m] = Blank /\ recorded' = recorded /\ pc'[g] = "recording"
         \/ file'[m] \in {p, None} /\ recorded' = recorded \cup {p} /\ pc'[g] = "up"
            /\ (file[m] # None => file'[m] = p) /\ pc[g] = "recording"
  BY <1>1 DEF OpenFile, Record, Records, causes
<1>3. /\ \A q : Handled(q)' = Handled(q)
      /\ \A q : Stopping(q)' = Stopping(q)
      /\ \A q : Running(q)' = Running(q)
      /\ \A q : Used(q)' = Used(q)
  BY <1>2 DEF Handled, Stopping, Running, Used
<1>4. \A q : Alive(q)' = Alive(q)
  BY <1>2, <1>3 DEF Alive
<1>5. \A h \in Gateway \ {g} : pc'[h] = pc[h] /\ (handle[h] \in Pid => handle[h] # p)
  BY <1>1, <1>2 DEF Records, OneGateway
<1>6. \A q \in Pid \ {p} : (Running(q) \/ Alive(q)) /\ model[q] = m => q \in contested
  BY <1>1, Alone
<1> HIDE DEF p, m
<1>7. Records'
  <2>1. pc' \in [Gateway -> {"idle", "opening", "recording", "up", "stopping"}]
    BY <1>2 DEF Records
  <2> QED  BY <1>1, <1>2, <2>1 DEF Records
<1>8. Remembered' /\ Leftover'
  <2>1. Used(p) /\ \A q \in recorded' : q \in recorded \/ q = p
    BY <1>1, <1>2 DEF Remembered
  <2>2. \A q \in Pid : (Handled(q) \/ Stopping(q) \/ q \in orphaned \/ q \in recorded)' => Used(q)'
    BY <1>2, <1>3, <2>1 DEF Remembered
  <2>3. \A q \in Pid : Used(q)' => model'[q] \in Model
    BY <1>2, <1>3 DEF Remembered
  <2>4. \A l \in Model : file'[l] \in Pid => (l = m /\ file'[l] = p /\ recorded' = recorded \cup {p}) \/ file'[l] = file[l]
    BY <1>2
  <2>5. \A l \in Model : file'[l] \in Pid => file'[l] \in recorded' /\ model'[file'[l]] = l
    BY <1>2, <2>4 DEF Remembered, m
  <2>6. Remembered'
    BY <1>2, <2>2, <2>3, <2>5 DEF Remembered
  <2>7. Leftover'
    BY <1>1, <1>2, <1>3, <2>4 DEF Leftover
  <2> QED  BY <2>6, <2>7
<1>9. OneGateway'
  <2>1. \A h \in Gateway : pc'[h] # "idle" => handle[h] # None
    BY <1>1, <1>2, <1>5 DEF OneGateway, Records, p
  <2> QED  BY <1>2, <1>3, <2>1 DEF OneGateway
<1>10. Recording'
  <2> SUFFICES ASSUME NEW h \in Gateway, Starting(h)'
               PROVE  /\ handle[h] \notin recorded' /\ ~Stopping(handle[h])
                      /\ model[handle[h]] \in todo => handle[h] \in contested
                      /\ (pc'[h] = "recording" /\ handle[h] \notin contested)
                           => file'[model[handle[h]]] = Blank
    BY <1>2, <1>3 DEF Recording
  <2>1. CASE h = g
    <3>1. pc'[g] = "recording" /\ file'[m] = Blank /\ recorded' = recorded
      BY <1>2, <2>1 DEF Starting
    <3> QED  BY <1>1, <2>1, <3>1 DEF Recording, p, m
  <2>2. CASE h # g
    <3>1. Starting(h) /\ handle[h] \in Pid /\ handle[h] # p /\ Alive(handle[h])
      BY <1>5, <2>2 DEF Starting, OneGateway, Records, Alive, Handled
    <3>2. model[handle[h]] # m \/ handle[h] \in contested
      BY <1>6, <3>1
    <3>3. model[handle[h]] \in Model
      BY <3>1 DEF Remembered, Handled
    <3> QED  BY <1>2, <1>5, <2>2, <3>1, <3>2, <3>3 DEF Recording
  <2> QED  BY <2>1, <2>2
<1>11. Apart' /\ Clearing'
  BY <1>2, <1>3, <1>4 DEF Apart, Clearing, At
<1>12. p \notin contested /\ recorded' # recorded => file'[m] = p /\ m \notin todo
  BY <1>1, <1>2 DEF Recording, p, m
<1>13. Tracked'
  <2> SUFFICES ASSUME NEW q \in recorded' \ (told \cup survived \cup contested), Running(q)
               PROVE  file'[model[q]] = q
    BY <1>2, <1>3 DEF Tracked
  <2>1. CASE q = p
    BY <1>1, <1>2, <1>12, <2>1 DEF m
  <2>2. CASE q # p
    <3>1. q \in recorded /\ q \in Pid
      BY <1>2, <2>2, Typed
    <3>2. model[q] # m /\ model[q] \in Model
      BY <1>6, <2>2, <3>1, RunningIsAlive DEF Remembered
    <3> QED  BY <1>2, <3>1, <3>2 DEF Tracked
  <2> QED  BY <2>1, <2>2
<1>14. StopReachesAll'
  BY <1>2, <1>3 DEF StopReachesAll
<1>15. \A q \in found \ contested : Running(q) => q # p /\ model[q] # m
  BY <1>1, <1>6, Typed DEF Remembered
<1>16. \A q \in recorded' \ contested : Running(q) /\ model[q] \in todo => q \in recorded
  BY <1>2, <1>12 DEF m
<1>17. \A q \in found \ contested : Running(q) => file'[model[q]] = file[model[q]]
  BY <1>2, <1>15, RunningIsAlive, Typed DEF Remembered
<1>18. Commanding'
  BY <1>2, <1>3, <1>16, <1>17 DEF Commanding, Commanded, Records
<1> QED
  BY <1>7, <1>8, <1>9, <1>10, <1>11, <1>13, <1>14, <1>18


(* A stop takes an engine that has been recorded, or whose start failed.   *)
LEMMA BeginStopKeeps ==
  ASSUME PidInv, NEW g \in Gateway, NEW t \in Thread, BeginStop(g, t)
  PROVE  PidInv'
<1> DEFINE p == handle[g]
<1> USE NoneIsNoPid DEF PidInv, BeginStop, StopIn, command, causes
<1>1. p \in Pid /\ Handled(p) /\ Alive(p) /\ Used(p) /\ stopper[t].pid = None
  BY Typed DEF OneGateway, Handled, Alive, Remembered, NoStop
<1>2. /\ \A q \in Pid : (Running(q)' <=> Running(q)) /\ (Used(q)' <=> Used(q))
      /\ \A q : Handled(q)' <=> Handled(q)
  BY <1>1 DEF Records, Running, Used, Handled
<1>3. /\ stopper'[t] = [at |-> IF Running(p) THEN "term" ELSE "clear", pid |-> p]
      /\ \A u \in Thread \ {t} : stopper'[u] = stopper[u]
  BY DEF Records
<1>4. \A q \in Pid : Stopping(q)' <=> Stopping(q) \/ q = p
  BY <1>1, <1>3 DEF Stopping
<1>5. \A q \in Pid : Alive(q)' <=> Alive(q)
  BY <1>1, <1>2, <1>4 DEF Alive
<1>6. pc'[g] = "stopping" /\ \A h \in Gateway \ {g} : pc'[h] = pc[h] /\ handle[h] # p
  BY <1>1 DEF Records, OneGateway
<1>7. Records'
  <2>1. process' \in [Pid -> {"unused", "running", "exited", "gone", "other"}]
    BY <1>1 DEF Records
  <2>2. pc' \in [Gateway -> {"idle", "opening", "recording", "up", "stopping"}]
    BY DEF Records
  <2>3. stopper' \in [Thread -> [at : {"none", "term", "wait", "wait again", "clear"}, pid : Pid \cup {None}]]
    <3>1. [at |-> IF Running(p) THEN "term" ELSE "clear", pid |-> p]
            \in [at : {"none", "term", "wait", "wait again", "clear"}, pid : Pid \cup {None}]
      BY <1>1
    <3> QED  BY <3>1 DEF Records
  <2>4. Records
    OBVIOUS
  <2>5. UNCHANGED <<model, file, handle, cli, todo, told, found, recorded, survived, orphaned, contested>>
    OBVIOUS
  <2> QED  BY ONLY <2>1, <2>2, <2>3, <2>4, <2>5 DEF Records
<1> HIDE DEF p
<1>8. Remembered' /\ Leftover'
  BY <1>1, <1>2, <1>4 DEF Remembered, Leftover
<1>9. OneGateway' /\ Apart'
  BY <1>2, <1>5, <1>6 DEF OneGateway, Apart, p
<1>10. Recording'
  <2> SUFFICES ASSUME NEW h \in Gateway, Starting(h)'
               PROVE  h # g /\ Starting(h) /\ pc'[h] = pc[h] /\ ~Stopping(handle[h])'
    BY DEF Recording
  <2>1. h # g /\ Starting(h) /\ pc'[h] = pc[h] /\ handle[h] # p
    BY <1>6 DEF Starting
  <2>2. handle[h] \in Pid /\ ~Stopping(handle[h])
    BY <2>1, Typed DEF Starting, OneGateway, Recording
  <2> QED  BY <1>4, <2>1, <2>2
<1>11. Clearing'
  BY <1>1, <1>2, <1>3, Typed DEF Clearing, At
<1>12. Commanding'
  BY <1>2, Typed DEF Commanding, Commanded
<1>13. Tracked' /\ StopReachesAll'
  BY <1>2, Typed DEF Tracked, StopReachesAll
<1> QED  BY <1>7, <1>8, <1>9, <1>10, <1>11, <1>12, <1>13

LEMMA CancelStopKeeps ==
  ASSUME PidInv, NEW g \in Gateway, CancelStop(g)
  PROVE  PidInv'
<1> USE NoneIsNoPid DEF PidInv, CancelStop, system, command, causes
<1>1. pc'[g] = "up" /\ pc[g] = "stopping" /\ \A h \in Gateway \ {g} : pc'[h] = pc[h]
  BY DEF Records
<1>2. /\ \A q : Running(q)' = Running(q) /\ Used(q)' = Used(q)
      /\ \A q : Handled(q)' = Handled(q) /\ Stopping(q)' = Stopping(q)
  BY DEF Running, Used, Handled, Stopping
<1>3. \A q : Alive(q)' = Alive(q)
  BY <1>2 DEF Alive
<1>4. Records'
  BY DEF Records
<1>5. Remembered' /\ Leftover' /\ Apart'
  BY <1>2, <1>3 DEF Remembered, Leftover, Apart
<1>6. OneGateway' /\ Recording'
  BY <1>1, <1>2 DEF OneGateway, Recording, Starting
<1>7. Clearing' /\ Commanding' /\ Tracked' /\ StopReachesAll'
  BY <1>2 DEF Clearing, At, Commanding, Commanded, Tracked, StopReachesAll
<1> QED  BY <1>4, <1>5, <1>6, <1>7

(* A thread goes from one wait of its stop to another.                     *)
StopRecord == [at : {"none", "term", "wait", "wait again", "clear"}, pid : Pid \cup {None}]

LEMMA GoesTo ==
  ASSUME Records, NEW t \in Thread, NEW w \in {"wait", "wait again", "clear"}, To(t, w)
  PROVE  /\ stopper'[t].at = w /\ stopper'[t].pid = stopper[t].pid
         /\ \A u \in Thread \ {t} : stopper'[u] = stopper[u]
         /\ stopper' \in [Thread -> StopRecord]
<1>1. stopper \in [Thread -> StopRecord]
  BY DEF Records, StopRecord
<1>2. stopper[t] \in StopRecord
  BY <1>1
<1> DEFINE s == [stopper[t] EXCEPT !.at = w]
<1>3. s \in StopRecord /\ s.at = w /\ s.pid = stopper[t].pid
  BY <1>2 DEF StopRecord
<1>4. stopper' = [stopper EXCEPT ![t] = s]
  BY DEF To
<1> HIDE DEF s
<1> QED  BY <1>1, <1>3, <1>4

LEMMA ThreadKeeps ==
  ASSUME PidInv, NEW t \in Thread, Terminate(t) \/ Reap(t) \/ Escalate(t) \/ Survives(t)
  PROVE  PidInv'
<1> DEFINE p == stopper[t].pid
<1> USE NoneIsNoPid DEF PidInv, command
<1>1. p \in Pid
  BY Typed DEF Terminate, Reap, Escalate, Survives, At, Clearing
<1>2. \E w \in {"wait", "wait again", "clear"} :
        To(t, w) /\ (w = "clear" => ~Running(p) \/ p \in survived')
  BY DEF Terminate, Reap, Escalate, Survives, Running
<1>3. PICK w \in {"wait", "wait again", "clear"} :
        To(t, w) /\ (w = "clear" => ~Running(p) \/ p \in survived')
  BY <1>2
<1>4. /\ stopper'[t].at = w /\ stopper'[t].pid = p
      /\ \A u \in Thread \ {t} : stopper'[u] = stopper[u]
      /\ stopper' \in [Thread -> StopRecord]
  BY <1>3, GoesTo
<1>5. UNCHANGED <<model, file, pc, handle, command, recorded, orphaned, contested>>
  BY DEF Terminate, Reap, Escalate, Survives, system, causes
<1>6. process' \in {process, [process EXCEPT ![p] = IF @ = "exited" THEN "gone" ELSE @]}
  BY DEF Terminate, Reap, Escalate, Survives, system
<1>7. \A q \in Pid : (Running(q)' <=> Running(q)) /\ (Used(q)' <=> Used(q))
  BY <1>6 DEF Records, Running, Used
<1>8. survived' \in {survived, survived \cup {p}}
  BY DEF Terminate, Reap, Escalate, Survives, causes
<1>9. Records'
  <2>1. process' \in [Pid -> {"unused", "running", "exited", "gone", "other"}]
    BY <1>1, <1>6 DEF Records
  <2>2. survived' \subseteq Pid /\ Records
    BY <1>1, <1>8 DEF Records
  <2> QED  BY ONLY <1>4, <1>5, <2>1, <2>2 DEF Records, command, StopRecord
<1>10. \A u \in Thread : stopper'[u].pid = stopper[u].pid
  BY <1>4
<1>11. Clearing'
  <2>1. stopper'[t].at # "none" /\ (w = "clear" => process'[p] # "running" \/ p \in survived')
    BY <1>1, <1>3, <1>4, <1>7 DEF Running, p
  <2>2. ASSUME NEW u \in Thread \ {t}, stopper[u].at = "clear"
        PROVE  process'[stopper[u].pid] # "running" \/ stopper[u].pid \in survived'
    <3>1. stopper[u].pid \in Pid
      BY <2>2, Typed DEF Clearing
    <3>2. ~Running(stopper[u].pid) \/ stopper[u].pid \in survived
      BY <2>2 DEF Clearing, At
    <3> HIDE DEF PidInv
    <3> QED  BY <1>7, <1>8, <3>1, <3>2 DEF Running
  <2>3. \A u \in Thread \ {t} : (stopper[u].at = "none") <=> (stopper[u].pid = None)
    BY DEF Clearing
  <2> HIDE DEF PidInv
  <2> QED  BY <1>1, <1>4, <1>10, <2>1, <2>2, <2>3 DEF Clearing, At, Running
<1> QED  BY <1>5, <1>7, <1>8, <1>9, <1>10, <1>11, Quieter

(* A stop ends: the file goes, and the handle unless the engine runs.      *)
LEMMA ClearKeeps ==
  ASSUME PidInv, NEW t \in Thread, Clear(t)
  PROVE  PidInv'
<1> DEFINE p == stopper[t].pid
           m == model[p]
<1> USE NoneIsNoPid DEF PidInv, Clear, Released, Cleared, command, causes
<1>1. p \in Pid /\ Stopping(p) /\ Alive(p) /\ m \in Model
  BY Typed DEF At, Clearing, Stopping, Alive, Remembered
<1>2. stopper'[t] = NoStop /\ \A u \in Thread \ {t} : stopper'[u] = stopper[u]
  BY DEF Records
<1>3. file'[m] = None /\ \A l \in Model \ {m} : file'[l] = file[l]
  BY <1>1 DEF Records
<1>4. UNCHANGED <<process, model, command, causes>>
  OBVIOUS
<1>5. \A g \in Gateway : \/ handle'[g] = handle[g] /\ pc'[g] = pc[g]
                         \/ handle'[g] = handle[g] /\ pc[g] = "stopping" /\ pc'[g] = "up"
                         \/ handle[g] = p /\ ~Running(p) /\ pc[g] = "stopping" /\ handle'[g] = None /\ pc'[g] = "idle"
  BY DEF Records
<1>6. Records'
  <2>1. file' \in [Model -> Pid \cup {None, Blank}]
    BY <1>1 DEF Records
  <2>2. pc' \in [Gateway -> {"idle", "opening", "recording", "up", "stopping"}]
    BY DEF Records
  <2>3. handle' \in [Gateway -> Pid \cup {None}]
    BY DEF Records
  <2>4. stopper' \in [Thread -> [at : {"none", "term", "wait", "wait again", "clear"}, pid : Pid \cup {None}]]
    BY DEF Records, NoStop
  <2>5. Records
    OBVIOUS
  <2> QED  BY ONLY <1>4, <2>1, <2>2, <2>3, <2>4, <2>5 DEF Records, command, causes
<1> HIDE DEF p, m, Clear
<1>7. \A q : Running(q)' = Running(q) /\ Used(q)' = Used(q)
  BY <1>4 DEF Running, Used
<1>8. \A q \in Pid : (Handled(q)' => Handled(q)) /\ (Stopping(q)' => Stopping(q))
  BY <1>2, <1>5 DEF Handled, Stopping, NoStop
<1>9. \A q \in Pid : Handled(q) /\ ~Handled(q)' => q = p /\ ~Running(p)
  BY <1>5 DEF Handled
<1>10. \A q \in Pid : Alive(q)' => Alive(q)
  BY <1>4, <1>7, <1>8 DEF Alive
<1>11. \A q \in Pid \ {p} : (Running(q) \/ Alive(q)) /\ model[q] = m => q \in contested
  BY <1>1, Alone DEF m
<1>12. \A l \in Model : file'[l] \in Pid => file'[l] = file[l] /\ l # m
  BY <1>3
<1>13. Remembered'
  BY <1>4, <1>7, <1>8, <1>12 DEF Remembered
<1>14. OneGateway'
  <2>1. \A g \in Gateway : pc'[g] # "idle" => handle'[g] # None
    BY <1>5 DEF OneGateway
  <2>2. \A g, h \in Gateway : handle'[g] = handle'[h] /\ handle'[g] # None => g = h
    BY <1>5 DEF OneGateway
  <2> QED  BY <1>4, <1>7, <1>9, <2>1, <2>2 DEF OneGateway
<1>15. Recording'
  <2> SUFFICES ASSUME NEW h \in Gateway, Starting(h)'
               PROVE  /\ handle'[h] = handle[h] /\ pc'[h] = pc[h] /\ Starting(h) /\ ~Stopping(handle[h])'
                      /\ (pc[h] = "recording" /\ handle[h] \notin contested)
                           => file'[model[handle[h]]] = file[model[handle[h]]]
    BY <1>4 DEF Recording
  <2>1. handle'[h] = handle[h] /\ pc'[h] = pc[h] /\ Starting(h)
    BY <1>5 DEF Starting
  <2>2. handle[h] \in Pid /\ ~Stopping(handle[h]) /\ Alive(handle[h])
    BY <2>1, Typed DEF Starting, OneGateway, Recording, Alive, Handled
  <2>3. handle[h] # p /\ model[handle[h]] \in Model
    BY <1>1, <2>1, <2>2 DEF Remembered, Handled
  <2>4. handle[h] \notin contested => file'[model[handle[h]]] = file[model[handle[h]]]
    BY <1>3, <1>11, <2>2, <2>3
  <2> QED  BY <1>8, <2>1, <2>2, <2>4
<1>16. Apart'
  BY <1>4, <1>10 DEF Apart
<1>17. Clearing'
  BY <1>2, <1>4, <1>7 DEF Clearing, At, NoStop
<1>18. Leftover'
  <2>1. \A l \in Model : file[l] \in Pid /\ l # m => file[l] # p
    BY DEF Remembered, m
  <2> QED  BY <1>4, <1>9, <1>12, <2>1 DEF Leftover
<1>19. p \in survived \/ ~Running(p)
  BY DEF Clear, Released, Clearing, At, p
<1>20. Tracked'
  <2> SUFFICES ASSUME NEW q \in recorded \ (told \cup survived \cup contested), Running(q)
               PROVE  file'[model[q]] = q
    BY <1>4, <1>7 DEF Tracked
  <2>1. q # p /\ q \in Pid
    BY <1>19, Typed
  <2>2. model[q] # m /\ model[q] \in Model
    BY <1>11, <2>1, RunningIsAlive DEF Remembered
  <2> QED  BY <1>3, <2>2 DEF Tracked
<1>21. StopReachesAll'
  BY <1>4, <1>7 DEF StopReachesAll
<1>22. ASSUME NEW q \in found \ (contested \cup told), Running(q)
       PROVE  file'[model[q]] \in {file[model[q]], None}
  BY <1>3, <1>22, RunningIsAlive, Typed DEF Remembered
<1>23. Commanding'
  BY <1>4, <1>7, <1>22 DEF Commanding, Commanded
<1> QED
  BY <1>6, <1>13, <1>14, <1>15, <1>16, <1>17, <1>18, <1>20, <1>21, <1>23

(* A gateway is killed: its engine, and what a thread was doing to it, is  *)
(* nobody's any more.                                                      *)
LEMMA DieKeeps ==
  ASSUME PidInv, NEW g \in Gateway, Die(g)
  PROVE  PidInv'
<1> DEFINE p == handle[g]
<1> USE NoneIsNoPid DEF PidInv, Die, command
<1>1. p \in Pid /\ Handled(p) /\ Used(p) /\ Alive(p)
  BY Typed DEF Handled, Remembered, Alive
<1>2. UNCHANGED <<model, file, command, recorded, survived, contested>> /\ orphaned' = orphaned \cup {p}
  OBVIOUS
<1>3. \A q \in Pid : (Running(q)' <=> Running(q)) /\ (Used(q)' <=> Used(q))
  BY <1>1 DEF Records, Running, Used
<1>4. /\ pc'[g] = "idle" /\ handle'[g] = None
      /\ \A h \in Gateway \ {g} : pc'[h] = pc[h] /\ handle'[h] = handle[h] /\ handle[h] # p
  BY <1>1 DEF Records, OneGateway
<1>5. \A u \in Thread : stopper'[u] = NoStop \/ (stopper'[u] = stopper[u] /\ stopper[u].pid # p)
  BY DEF Records
<1>6. Records'
  <2>1. process' \in [Pid -> {"unused", "running", "exited", "gone", "other"}]
    BY <1>1 DEF Records
  <2>2. pc' \in [Gateway -> {"idle", "opening", "recording", "up", "stopping"}]
    BY DEF Records
  <2>3. handle' \in [Gateway -> Pid \cup {None}]
    BY DEF Records
  <2>4. stopper' \in [Thread -> [at : {"none", "term", "wait", "wait again", "clear"}, pid : Pid \cup {None}]]
    BY DEF Records, NoStop
  <2>5. Records /\ orphaned' \subseteq Pid
    BY <1>1, <1>2 DEF Records
  <2> QED  BY ONLY <1>2, <2>1, <2>2, <2>3, <2>4, <2>5 DEF Records, command
<1> HIDE DEF p, Die
<1>7. \A q \in Pid : Handled(q)' <=> Handled(q) /\ q # p
  BY <1>1, <1>4 DEF Handled, p
<1>8. \A q \in Pid : Stopping(q)' => Stopping(q)
  BY <1>5 DEF Stopping, NoStop
<1>9. \A q \in Pid : Alive(q)' => Alive(q)
  BY <1>1, <1>2, <1>3, <1>7, <1>8 DEF Alive
<1>10. Remembered'
  <2>1. \A q \in Pid : (Handled(q) \/ Stopping(q) \/ q \in orphaned \/ q \in recorded)' => Used(q)'
    BY <1>1, <1>2, <1>3, <1>7, <1>8 DEF Remembered
  <2> QED  BY <1>2, <1>3, <2>1 DEF Remembered
<1>11. OneGateway'
  <2>1. \A h \in Gateway : pc'[h] # "idle" => handle'[h] # None
    BY <1>4 DEF OneGateway
  <2>2. \A h, k \in Gateway : handle'[h] = handle'[k] /\ handle'[h] # None => h = k
    BY <1>4 DEF OneGateway
  <2>3. \A q \in Pid : Running(q)' => Handled(q)' \/ q \in orphaned'
    BY <1>2, <1>3, <1>7 DEF OneGateway
  <2> QED  BY <2>1, <2>2, <2>3 DEF OneGateway
<1>12. Recording'
  <2> SUFFICES ASSUME NEW h \in Gateway, Starting(h)'
               PROVE  handle'[h] = handle[h] /\ pc'[h] = pc[h] /\ Starting(h) /\ ~Stopping(handle[h])'
    BY <1>2 DEF Recording
  <2>1. handle'[h] = handle[h] /\ pc'[h] = pc[h] /\ Starting(h)
    BY <1>4 DEF Starting
  <2>2. handle[h] \in Pid /\ ~Stopping(handle[h])
    BY <2>1, Typed DEF Starting, OneGateway, Recording
  <2> QED  BY <1>8, <2>1, <2>2
<1>13. Apart'
  BY <1>2, <1>9 DEF Apart
<1>14. Clearing'
  <2> SUFFICES ASSUME NEW u \in Thread, stopper'[u] = stopper[u]
               PROVE  stopper[u].at = "clear" =>
                        process'[stopper[u].pid] # "running" \/ stopper[u].pid \in survived'
    BY <1>5 DEF Clearing, At, Running, NoStop
  <2>1. stopper[u].at = "clear" => stopper[u].pid \in Pid
    BY Typed DEF Clearing
  <2> QED  BY <1>2, <1>3, <2>1 DEF Clearing, At, Running
<1>15. Leftover'
  BY <1>2, <1>7 DEF Leftover
<1>16. Tracked' /\ StopReachesAll'
  BY <1>2, <1>3, Typed DEF Tracked, StopReachesAll
<1>17. Commanding'
  BY <1>2, <1>3, Typed DEF Commanding, Commanded
<1> QED  BY <1>6, <1>10, <1>11, <1>12, <1>13, <1>14, <1>15, <1>16, <1>17

(* What the steps of litmoe stop leave alone: the engines and the          *)
(* gateways.                                                               *)
LEMMA CommandKeeps ==
  ASSUME PidInv,
         UNCHANGED <<process, model, gateways, recorded, survived, orphaned>>,
         \A m \in Model : file'[m] \in Pid => file'[m] = file[m],
         found' \subseteq recorded, contested \subseteq contested'
  PROVE  /\ Remembered' /\ OneGateway' /\ Apart' /\ Clearing' /\ Leftover'
         /\ \A q : Running(q)' = Running(q)
<1> USE DEF PidInv, gateways
<1>1. /\ \A q : Running(q)' = Running(q) /\ Used(q)' = Used(q)
      /\ \A q : Handled(q)' = Handled(q) /\ Stopping(q)' = Stopping(q)
  BY DEF Running, Used, Handled, Stopping
<1>2. \A q : Alive(q)' = Alive(q)
  BY <1>1 DEF Alive
<1>3. Remembered' /\ Leftover'
  BY <1>1 DEF Remembered, Leftover
<1>4. OneGateway' /\ Apart' /\ Clearing'
  BY <1>1, <1>2 DEF OneGateway, Apart, Clearing, At
<1> QED  BY <1>1, <1>3, <1>4

LEMMA GlobKeeps ==
  ASSUME PidInv, Glob
  PROVE  PidInv'
<1> USE NoneIsNoPid DEF PidInv, Glob, system, gateways
<1>1. /\ UNCHANGED <<process, model, file, pc, handle, stopper, told, struck, recorded, survived, orphaned>>
      /\ cli' = [at |-> "loop", model |-> None, pid |-> None]
      /\ todo' = {m \in Model : file[m] # None}
      /\ found' = {p \in Pid : Running(p) /\ file[model[p]] = p}
      /\ contested' = contested \cup {handle[g] : g \in {h \in Gateway : pc[h] \in {"opening", "recording"}}}
  BY DEF Off
<1>2. \A g \in Gateway : Starting(g) => handle[g] \in contested' \cap Pid
  BY <1>1, Typed DEF Starting, OneGateway
<1>3. contested \subseteq contested' /\ contested' \subseteq Pid
  <2>1. \A g \in Gateway : pc[g] \in {"opening", "recording"} => handle[g] \in Pid
    BY <1>2 DEF Starting
  <2>2. contested \subseteq Pid
    BY DEF Records
  <2> HIDE DEF PidInv, Glob
  <2> QED  BY <1>1, <2>1, <2>2
<1>4. \A p \in found' : p \in recorded /\ file[model[p]] = p /\ model[p] \in Model /\ model[p] \in todo'
  <2> SUFFICES ASSUME NEW p \in Pid, Running(p), file[model[p]] = p
               PROVE  p \in recorded /\ model[p] \in Model
    BY <1>1
  <2> QED  BY RunningIsAlive DEF Remembered
<1>5. Records'
  <2>1. Records /\ todo' \subseteq Model /\ found' \subseteq Pid
    BY <1>1
  <2>2. cli' \in [at : {"off", "loop", "signal", "unlink", "aborted", "done"},
                  model : Model \cup {None}, pid : Pid \cup {None}]
    <3> HIDE DEF PidInv, Glob
    <3> QED  BY <1>1
  <2> QED  BY ONLY <1>1, <1>3, <2>1, <2>2 DEF Records
<1>6. Remembered' /\ OneGateway' /\ Apart' /\ Clearing' /\ Leftover' /\ \A q : Running(q)' = Running(q)
  BY <1>1, <1>3, <1>4, CommandKeeps
<1>7. Recording'
  BY <1>1, <1>2, <1>3 DEF Recording, Starting, Stopping
<1>8. Tracked' /\ StopReachesAll'
  BY <1>1, <1>3, <1>6 DEF Tracked, StopReachesAll
<1>9. Commanding'
  BY <1>1, <1>4, <1>6 DEF Commanding, Commanded
<1> QED  BY <1>5, <1>6, <1>7, <1>8, <1>9

LEMMA ReadFileKeeps ==
  ASSUME PidInv, NEW m \in Model, ReadFile(m)
  PROVE  PidInv'
<1> USE NoneIsNoPid DEF PidInv, ReadFile, system, gateways, causes
<1>1. UNCHANGED <<process, model, file, pc, handle, stopper, told, struck, found,
                  recorded, survived, orphaned, contested>>
  OBVIOUS
<1>2. \/ file[m] = None /\ cli' = [at |-> "aborted", model |-> None, pid |-> None] /\ todo' = {}
      \/ file[m] = Blank /\ cli' = [at |-> "unlink", model |-> m, pid |-> None] /\ todo' = todo
      \/ file[m] \in Pid /\ cli' = [at |-> "signal", model |-> m, pid |-> file[m]] /\ todo' = todo
  BY Typed DEF Off
<1>3. cli.at = "loop" /\ m \in todo
  OBVIOUS
<1>4. Records'
  <2>1. Records
    OBVIOUS
  <2>2. cli' \in [at : {"off", "loop", "signal", "unlink", "aborted", "done"},
                  model : Model \cup {None}, pid : Pid \cup {None}]
    BY <1>2
  <2>3. todo' \subseteq Model
    BY <1>2 DEF Records
  <2> QED  BY ONLY <1>1, <2>1, <2>2, <2>3 DEF Records
<1>5. Remembered' /\ OneGateway' /\ Apart' /\ Clearing' /\ Leftover' /\ \A q : Running(q)' = Running(q)
  <2>1. found' \subseteq recorded /\ contested \subseteq contested'
    BY <1>1 DEF Remembered
  <2> QED  BY <1>1, <2>1, CommandKeeps
<1>6. Recording'
  BY <1>1, <1>2 DEF Recording, Starting, Stopping
<1>7. Tracked' /\ StopReachesAll'
  BY <1>1, <1>2, <1>5 DEF Tracked, StopReachesAll
<1>8. \A p \in recorded \ (told \cup survived \cup contested) :
        Running(p) /\ model[p] = m => file[m] = p
  BY DEF Tracked
<1>9. \A p \in found \ (contested \cup told) : Running(p) /\ model[p] = m => file[m] \in {p, None}
  BY <1>3 DEF Commanding, Commanded
<1> HIDE DEF PidInv
<1>10. Commanding
  BY DEF PidInv
<1>11. CASE file[m] = None
  BY <1>1, <1>2, <1>4, <1>5, <1>6, <1>7, <1>11 DEF Commanding, Commanded, PidInv
<1>12. CASE file[m] = Blank
  <2>1. cli'.at = "unlink" /\ cli'.model = m /\ cli'.pid = None /\ todo' = todo
    BY <1>2, <1>12
  <2>2. \A p \in Pid : file[m] # p
    BY <1>12
  <2>3. recorded \subseteq Pid /\ found \subseteq Pid
    BY Typed DEF PidInv
  <2>4. Commanding'
    BY <1>1, <1>3, <1>5, <1>8, <1>9, <1>10, <1>12, <2>1, <2>2, <2>3 DEF Commanding, Commanded
  <2> QED  BY <1>4, <1>5, <1>6, <1>7, <2>4 DEF PidInv
<1>13. CASE file[m] \in Pid
  <2>1. cli'.at = "signal" /\ cli'.model = m /\ cli'.pid = file[m] /\ todo' = todo
    BY <1>2, <1>13
  <2>2. Commanding'
    BY <1>1, <1>3, <1>5, <1>8, <1>9, <1>10, <1>13, <2>1 DEF Commanding, Commanded
  <2> QED  BY <1>4, <1>5, <1>6, <1>7, <2>2 DEF PidInv
<1> QED  BY <1>2, <1>11, <1>12, <1>13

LEMMA SignalKeeps ==
  ASSUME PidInv, Signal
  PROVE  PidInv'
<1> USE NoneIsNoPid DEF PidInv, Signal, system, gateways, causes
<1>1. UNCHANGED <<process, model, file, pc, handle, stopper, todo, found,
                  recorded, survived, orphaned, contested>>
  OBVIOUS
<1>2. /\ cli.at = "signal" /\ cli.pid \in Pid
      /\ cli'.at = "unlink" /\ cli'.model = cli.model /\ cli'.pid = cli.pid
      /\ cli' \in [at : {"off", "loop", "signal", "unlink", "aborted", "done"},
                   model : Model \cup {None}, pid : Pid \cup {None}]
  <2>1. cli.pid \in Pid
    BY Typed DEF Commanding
  <2>2. cli \in [at : {"off", "loop", "signal", "unlink", "aborted", "done"},
                model : Model \cup {None}, pid : Pid \cup {None}]
    BY DEF Records
  <2>3. cli.at = "signal" /\ cli' = [cli EXCEPT !.at = "unlink"]
    OBVIOUS
  <2> QED  BY ONLY <2>1, <2>2, <2>3
<1>3. told' = told \cup {cli.pid} /\ told' \subseteq Pid
  BY <1>2, Typed
<1>4. Records'
  <2>1. Records
    OBVIOUS
  <2> QED  BY ONLY <1>1, <1>2, <1>3, <2>1 DEF Records
<1>5. Remembered' /\ OneGateway' /\ Apart' /\ Clearing' /\ Leftover' /\ \A q : Running(q)' = Running(q)
  <2>1. found' \subseteq recorded /\ contested \subseteq contested'
    BY <1>1 DEF Remembered
  <2> QED  BY <1>1, <2>1, CommandKeeps
<1>6. Recording'
  BY <1>1 DEF Recording, Starting, Stopping
<1>7. Tracked' /\ StopReachesAll'
  BY <1>1, <1>2, <1>3, <1>5 DEF Tracked, StopReachesAll
<1>8. Commanding'
  BY <1>1, <1>2, <1>3, <1>5 DEF Commanding, Commanded
<1> QED  BY <1>4, <1>5, <1>6, <1>7, <1>8

(* The file that the command removes is that of the engine it has          *)
(* signalled, or of none that is known.                                    *)
LEMMA UnlinkKeeps ==
  ASSUME PidInv, Unlink
  PROVE  PidInv'
<1> USE NoneIsNoPid DEF PidInv, Unlink, gateways, causes
<1>1. UNCHANGED <<process, model, pc, handle, stopper, told, struck, found,
                  recorded, survived, orphaned, contested>>
  OBVIOUS
<1>2. /\ cli.at = "unlink" /\ cli.model \in todo /\ cli.model \in Model
      /\ cli' = [at |-> "loop", model |-> None, pid |-> None]
      /\ todo' = todo \ {cli.model}
  BY DEF Off, Commanding, Records
<1>3. file'[cli.model] = None /\ \A l \in Model \ {cli.model} : file'[l] = file[l]
  BY <1>2 DEF Records
<1>4. Records'
  <2>1. Records
    OBVIOUS
  <2>2. cli' \in [at : {"off", "loop", "signal", "unlink", "aborted", "done"},
                  model : Model \cup {None}, pid : Pid \cup {None}]
    BY ONLY <1>2
  <2>3. todo' \subseteq Model
    BY <1>2 DEF Records
  <2>4. file' \in [Model -> Pid \cup {None, Blank}]
    BY <1>2 DEF Records
  <2> QED  BY ONLY <1>1, <2>1, <2>2, <2>3, <2>4 DEF Records
<1>5. Remembered' /\ OneGateway' /\ Apart' /\ Clearing' /\ Leftover' /\ \A q : Running(q)' = Running(q)
  <2>1. found' \subseteq recorded /\ contested \subseteq contested'
    BY <1>1 DEF Remembered
  <2>2. \A l \in Model : file'[l] \in Pid => file'[l] = file[l]
    BY <1>3
  <2> QED  BY <1>1, <2>1, <2>2, CommandKeeps
<1>6. Recording'
  <2> SUFFICES ASSUME NEW g \in Gateway, Starting(g), handle[g] \notin contested
               PROVE  file'[model[handle[g]]] = file[model[handle[g]]] /\ model[handle[g]] \notin todo
    BY <1>1, <1>2 DEF Recording, Starting, Stopping
  <2>1. handle[g] \in Pid
    BY Typed DEF Starting, OneGateway
  <2>2. model[handle[g]] \in Model
    BY <2>1 DEF Remembered, Handled
  <2> QED  BY <1>2, <1>3, <2>2 DEF Recording
<1>7. Tracked'
  <2> SUFFICES ASSUME NEW p \in recorded \ (told \cup survived \cup contested), Running(p)
               PROVE  file'[model[p]] = p
    BY <1>1, <1>5 DEF Tracked
  <2>1. p \in Pid /\ model[p] \in Model
    BY RunningIsAlive, Typed DEF Remembered
  <2>2. model[p] # cli.model
    BY <1>2, <2>1 DEF Commanding
  <2> QED  BY <1>3, <2>1, <2>2 DEF Tracked
<1>8. StopReachesAll'
  BY <1>2 DEF StopReachesAll
<1>9. ASSUME NEW p \in found \ (contested \cup told), Running(p)
      PROVE  model[p] \in todo /\ model[p] # cli.model /\ file'[model[p]] \in {p, None}
  <2>1. p \in Pid /\ model[p] \in Model
    BY <1>9, RunningIsAlive, Typed DEF Remembered
  <2>2. model[p] \in todo /\ file[model[p]] \in {p, None} /\ (model[p] = cli.model => cli.pid = p)
    BY <1>2, <1>9 DEF Commanding, Commanded
  <2>3. model[p] # cli.model
    BY <1>2, <1>9, <2>1, <2>2 DEF Commanding
  <2> QED  BY <1>3, <2>1, <2>2, <2>3
<1> HIDE DEF PidInv, Unlink
<1>10. Commanding'
  BY <1>1, <1>2, <1>5, <1>9 DEF Commanding, Commanded
<1> QED  BY <1>4, <1>5, <1>6, <1>7, <1>8, <1>10 DEF PidInv

LEMMA DoneKeeps ==
  ASSUME PidInv, Done
  PROVE  PidInv'
<1> USE NoneIsNoPid DEF PidInv, Done, system, gateways, causes
<1>1. UNCHANGED <<process, model, file, pc, handle, stopper, todo, found,
                  recorded, survived, orphaned, contested>>
  OBVIOUS
<1>2. /\ cli.at = "loop" /\ todo = {} /\ cli' = [at |-> "done", model |-> None, pid |-> None]
      /\ told \subseteq told' /\ told' \subseteq Pid
  BY Typed DEF Off
<1>3. Records'
  <2>1. Records
    OBVIOUS
  <2>2. cli' \in [at : {"off", "loop", "signal", "unlink", "aborted", "done"},
                  model : Model \cup {None}, pid : Pid \cup {None}]
    BY ONLY <1>2
  <2> QED  BY ONLY <1>1, <1>2, <2>1, <2>2 DEF Records
<1>4. Remembered' /\ OneGateway' /\ Apart' /\ Clearing' /\ Leftover' /\ \A q : Running(q)' = Running(q)
  <2>1. found' \subseteq recorded /\ contested \subseteq contested'
    BY <1>1 DEF Remembered
  <2> QED  BY <1>1, <2>1, CommandKeeps
<1>5. Recording'
  BY <1>1 DEF Recording, Starting, Stopping
<1>6. Tracked'
  BY <1>1, <1>2, <1>4 DEF Tracked
<1>7. \A p \in found \ (contested \cup told) : ~Running(p)
  BY <1>2 DEF Commanding, Commanded
<1> HIDE DEF PidInv, Done
<1>8. StopReachesAll'
  BY <1>1, <1>2, <1>4, <1>7 DEF StopReachesAll
<1>9. Commanding'
  BY <1>1, <1>2, <1>4, <1>7 DEF Commanding, Commanded
<1> QED  BY <1>3, <1>4, <1>5, <1>6, <1>8, <1>9 DEF PidInv

LEMMA PidStep == PidInv /\ [Next]_vars => PidInv'
<1> SUFFICES ASSUME PidInv, [Next]_vars PROVE PidInv'
  OBVIOUS
<1>1. CASE UNCHANGED vars
  <2>1. UNCHANGED <<process, model, file, pc, handle, stopper, command, recorded, survived, orphaned, contested>>
    BY <1>1 DEF vars, system, gateways, causes
  <2>2. Records'
    BY <2>1 DEF PidInv, Records, command
  <2>3. Clearing'
    BY <2>1 DEF PidInv, Clearing, At, Running
  <2>4. \A p \in Pid : (Running(p)' => Running(p)) /\ (Used(p)' <=> Used(p))
    BY <2>1 DEF Running, Used
  <2> QED  BY <2>1, <2>2, <2>3, <2>4, Quieter DEF PidInv
<1>2. CASE \E p \in Pid : Exits(p) \/ Reused(p)
  BY <1>2, EndsKeeps
<1>3. ASSUME NEW g \in Gateway,
             \/ \E m \in Model, p \in Pid : Start(g, m, p)
             \/ OpenFile(g) \/ Record(g) \/ Poll(g) \/ CancelStop(g) \/ Die(g)
             \/ \E t \in Thread : BeginStop(g, t)
      PROVE  PidInv'
  BY <1>3, StartKeeps, WriteKeeps, PollKeeps, CancelStopKeeps, DieKeeps, BeginStopKeeps
<1>4. CASE \E t \in Thread : Terminate(t) \/ Reap(t) \/ Escalate(t) \/ Survives(t) \/ Clear(t)
  BY <1>4, ThreadKeeps, ClearKeeps
<1>5. CASE Glob \/ (\E m \in Model : ReadFile(m)) \/ Signal \/ Unlink \/ Done
  BY <1>5, GlobKeeps, ReadFileKeeps, SignalKeeps, UnlinkKeeps, DoneKeeps
<1> QED  BY <1>1, <1>2, <1>3, <1>4, <1>5 DEF Next

(* The invariant holds for any gateways, threads and engines, whether or   *)
(* not numbers are used again (Engine.start, Engine.stop, the stop         *)
(* command).                                                               *)
THEOREM PidSafe == Spec => []PidInv
<1> QED  BY PidInit, PidStep, PTL DEF Spec

(* The types of the state (base.py and the stop command).                  *)
THEOREM PidTypes == Spec => []TypeOK
<1>1. PidInv => TypeOK
  BY DEF PidInv, Records, OneGateway, TypeOK
<1> QED  BY <1>1, PidSafe, PTL

(* An engine that runs and was recorded is named by the file of its model, *)
(* unless it was signalled, outlived a stop, or was started beside another *)
(* owner of that file (_record_pid and _clear_pid).                        *)
THEOREM TrackedSafe == Spec => []Tracked
<1>1. PidInv => Tracked
  BY DEF PidInv
<1> QED  BY <1>1, PidSafe, PTL

(* A file names a process that is gone only if a gateway has yet to stop   *)
(* it or was killed (Engine.stop's clean-up).                              *)
THEOREM LeftoversSafe == Spec => []LeftoversAreExpected
<1>1. PidInv => LeftoversAreExpected
  BY DEF PidInv, Leftover, Handled, LeftoversAreExpected
<1> QED  BY <1>1, PidSafe, PTL

(* A litmoe stop that ended in order has signalled every engine whose file *)
(* it found and that still runs (stop's loop over the files).              *)
THEOREM StopSafe == Spec => []StopReachesAll
<1>1. PidInv => StopReachesAll
  BY DEF PidInv
<1> QED  BY <1>1, PidSafe, PTL

==================================================================================
