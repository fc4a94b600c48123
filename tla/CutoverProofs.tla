----------------------------- MODULE CutoverProofs -----------------------------
(***************************************************************************)
(* Why an installer that runs alone never loses a runtime, however many    *)
(* runs there are and wherever they fail, are interrupted or are killed:   *)
(* at every position between two renames the tree and the launcher are     *)
(* each in one of three places.  At the end, the llama.cpp installer.      *)
(***************************************************************************)
EXTENDS RuntimeCutover, LlamaInstall, TLAPS

(* Runs do not overlap.                                                    *)
Assumed == Together = FALSE

(* The run is install_warp's, or a Ctrl-C in install_dwarfstar's handler   *)
(* comes after its try.                                                    *)
Orderly == warp \/ Escaping = FALSE

(* Where the tree that was there before is, and the launcher.              *)
KeptTree(i) == shared["dest"] = before[i]["dest"] /\ stage[i]["backup"] = Nothing
MovedTree(i) == shared["dest"] = Nothing /\ stage[i]["backup"] = before[i]["dest"]
NewTree(i) == shared["dest"] = i /\ stage[i]["backup"] = before[i]["dest"]
AnyTree(i) == KeptTree(i) \/ MovedTree(i) \/ NewTree(i)

KeptLauncher(i) == shared["wrapper"] = before[i]["wrapper"] /\ stage[i]["launcher backup"] = Nothing
MovedLauncher(i) == shared["wrapper"] = Nothing /\ stage[i]["launcher backup"] = before[i]["wrapper"]
NewLauncher(i) == shared["wrapper"] = i /\ stage[i]["launcher backup"] = before[i]["wrapper"]
AnyLauncher(i) == KeptLauncher(i) \/ MovedLauncher(i) \/ NewLauncher(i)

Built(i) == stage[i]["checkout"] = i /\ (warp => stage[i]["staged"] = i)

Replaced(i) == NewTree(i) /\ (warp => NewLauncher(i)) /\ (~warp => KeptLauncher(i))
Restored(i) ==
  IF rollbackFailed[i] \/ ~Orderly THEN AnyTree(i) /\ AnyLauncher(i)
  ELSE /\ KeptLauncher(i)
       /\ KeptTree(i) \/ (~warp /\ before[i]["dest"] = Nothing /\ shared["dest"] = i)

(* The paths, by the position a run is at.                                 *)
Placed(i) ==
  /\ pc[i] = "look" =>
       /\ Built(i) /\ hadLauncher[i] = FALSE
       /\ stage[i]["backup"] = Nothing /\ stage[i]["launcher backup"] = Nothing
  /\ pc[i] = "look launcher" => Built(i) /\ KeptTree(i) /\ KeptLauncher(i) /\ warp
  /\ pc[i] = "move tree" => Built(i) /\ KeptTree(i) /\ KeptLauncher(i)
  /\ pc[i] = "move launcher" => Built(i) /\ MovedTree(i) /\ KeptLauncher(i) /\ warp
  /\ pc[i] = "publish" =>
       /\ Built(i) /\ MovedTree(i)
       /\ (warp => MovedLauncher(i)) /\ (~warp => KeptLauncher(i))
  /\ pc[i] = "link" => NewTree(i) /\ MovedLauncher(i) /\ warp /\ stage[i]["staged"] = i
  /\ pc[i] = "replaced" => Replaced(i)
  /\ pc[i] = "rollback" => AnyTree(i) /\ AnyLauncher(i) /\ warp
  /\ pc[i] = "displace launcher" => AnyTree(i) /\ NewLauncher(i) /\ warp
  /\ pc[i] = "restore launcher" => AnyTree(i) /\ MovedLauncher(i) /\ warp
  /\ pc[i] = "rollback tree" => AnyTree(i) /\ KeptLauncher(i)
  /\ pc[i] = "displace tree" => NewTree(i) /\ KeptLauncher(i) /\ warp
  /\ pc[i] = "restore tree" => KeptLauncher(i) /\ (MovedTree(i) \/ (NewTree(i) /\ before[i]["dest"] # Nothing))
  /\ pc[i] = "rolled back" => Restored(i)
  /\ pc[i] = "cleaning" =>
       \/ result[i] = "installed" /\ Replaced(i)
       \/ result[i] = "failed" /\ Restored(i)

(* What a run has seen.                                                    *)
Seen(i) ==
  /\ pc[i] # "look" => (hadPrevious[i] <=> before[i]["dest"] # Nothing)
  /\ pc[i] \notin {"look", "look launcher"} =>
       (hadLauncher[i] <=> warp /\ before[i]["wrapper"] # Nothing)
  /\ pc[i] # "cleaning" => result[i] = "none"

(* A runtime was there or was reported.                                    *)
Known == \E i \in Installer : before[i]["dest"] # Nothing \/ result[i] = "installed"

(* If a run finds none in place, an earlier one was cut off and has it.    *)
Elsewhere(i) ==
  Orderly /\ pc[i] # "look" /\ before[i]["dest"] = Nothing /\ result[i] # "installed" /\ Known =>
    \E j \in Installer \ {i} : stage[j]["backup"] # Nothing

OneRun == \A i, j \in Installer : Working(i) /\ Working(j) => i = j
Idle(i) == pc[i] = "idle" => stage[i] = Empty /\ hadLauncher[i] = FALSE /\ result[i] = "none"

NotLost == Orderly => RuntimeNeverLost

CutoverInv ==
  /\ TypeOK /\ OneRun
  /\ \A i \in Installer : Idle(i) /\ (Working(i) => Placed(i) /\ Seen(i) /\ Elsewhere(i))
  /\ NotLost

LEMMA NoInstaller ==
  /\ Nothing \notin Installer /\ Old \notin Installer /\ Old # Nothing
  /\ Content = Installer \cup {Old, Nothing}
BY Names DEF Content

LEMMA CutoverInit == Init => CutoverInv
<1> SUFFICES ASSUME Init PROVE CutoverInv
  OBVIOUS
<1> USE NoInstaller DEF Init
<1>1. TypeOK
  BY Switches DEF TypeOK, Empty, Position, Result
<1>2. \A i \in Installer : ~Working(i)
  BY DEF Working
<1>3. \A i \in Installer : Idle(i)
  BY DEF Idle
<1>4. NotLost
  BY DEF NotLost, Orderly, RuntimeNeverLost
<1> QED  BY <1>1, <1>2, <1>3, <1>4 DEF CutoverInv, OneRun

(* What a step of a run does not touch: what is recorded of the others.    *)
OthersStay(i) ==
  \A j \in Installer \ {i} :
    /\ pc'[j] = pc[j] /\ result'[j] = result[j] /\ stage'[j] = stage[j] /\ before'[j] = before[j]
    /\ hadLauncher'[j] = hadLauncher[j]

(* Only one run works, so that a step need only place the one it is of.    *)
LEMMA OneAtATime ==
  ASSUME Assumed, CutoverInv, NEW i \in Installer, Step(i)
  PROVE  \A j \in Installer \ {i} : ~Working(j)
<1>1. MayBegin(i) \/ Working(i)
  BY DEF Step, Reuse, Build, LookTree, LookLauncher, Rename, Fail, RollbackFails, RollBackLauncher,
         RollBackTree, Finish, Clean, Kill, Working, Ended, Replacing, RollingBack, Moves
<1> QED  BY <1>1 DEF MayBegin, Assumed, CutoverInv, OneRun

LEMMA Combined ==
  ASSUME CutoverInv, NEW i \in Installer, \A j \in Installer \ {i} : ~Working(j),
         TypeOK', OthersStay(i), pc'[i] # "idle",
         Working(i)' => Placed(i)' /\ Seen(i)' /\ Elsewhere(i)',
         NotLost'
  PROVE  CutoverInv'
<1>1. \A j \in Installer \ {i} : ~Working(j)'
  BY DEF OthersStay, Working
<1>2. \A j \in Installer : Idle(j)'
  BY DEF OthersStay, CutoverInv, Idle
<1>3. OneRun'
  BY <1>1 DEF OneRun
<1> QED  BY <1>1, <1>2, <1>3 DEF CutoverInv

(* A run begins, or has nothing to do.                                     *)
LEMMA BeginKeeps ==
  ASSUME Assumed, CutoverInv, NEW i \in Installer, Reuse(i) \/ Build(i)
  PROVE  CutoverInv'
<1> USE NoInstaller
<1>1. \A j \in Installer \ {i} : ~Working(j)
  BY OneAtATime DEF Step
<1>2. TypeOK /\ Idle(i) /\ NotLost /\ pc[i] = "idle"
  BY DEF CutoverInv, Reuse, Build, MayBegin
<1>3. CASE Reuse(i)
  <2>1. TypeOK'
    BY <1>2, <1>3 DEF Reuse, looked, failures, TypeOK, Position, Ended, Result
  <2>2. OthersStay(i) /\ pc'[i] = "done"
    BY <1>2, <1>3 DEF Reuse, looked, OthersStay, TypeOK
  <2>3. NotLost'
    BY <1>3 DEF Reuse, looked, NotLost, Orderly, RuntimeNeverLost
  <2> QED  BY <1>1, <2>1, <2>2, <2>3, Combined DEF Working, Ended
<1>4. CASE Build(i)
  <2>1. TypeOK' /\ Built(i)' /\ stage'[i]["backup"] = Nothing /\ stage'[i]["launcher backup"] = Nothing
    BY <1>2, <1>4 DEF Build, looked, failures, TypeOK, Position, Empty, Private, Built
  <2>2. OthersStay(i) /\ pc'[i] = "look" /\ hadLauncher'[i] = FALSE
    BY <1>2, <1>4 DEF Build, looked, OthersStay, TypeOK, Idle
  <2>3. stage[i]["backup"] = Nothing
    BY <1>2 DEF Idle, Empty, Private
  <2>4. NotLost'
    BY <1>2, <1>4, <2>2, <2>3 DEF Build, looked, NotLost, Orderly, RuntimeNeverLost, OthersStay, Exists, Holds, Shared
  <2>5. Placed(i)' /\ Seen(i)' /\ Elsewhere(i)'
    BY <1>2, <1>4, <2>1, <2>2 DEF Placed, Seen, Elsewhere, Orderly, Idle, Build
  <2> QED  BY <1>1, <2>1, <2>2, <2>4, <2>5, Combined
<1> QED  BY <1>3, <1>4

(* A run looks at what is there.                                           *)
LEMMA LookKeeps ==
  ASSUME Assumed, CutoverInv, NEW i \in Installer, LookTree(i) \/ LookLauncher(i)
  PROVE  CutoverInv'
<1> USE NoInstaller
<1>1. \A j \in Installer \ {i} : ~Working(j)
  BY OneAtATime DEF Step
<1>2. TypeOK /\ Working(i) /\ Placed(i) /\ Seen(i) /\ Elsewhere(i) /\ NotLost
  BY DEF CutoverInv, LookTree, LookLauncher, Working, Ended
<1>3. CASE LookTree(i)
  <2>1. TypeOK'
    BY <1>2, <1>3 DEF LookTree, failures, TypeOK, Position, Replacing
  <2>2. OthersStay(i) /\ before'[i] = shared /\ (hadPrevious'[i] <=> shared["dest"] # Nothing)
    BY <1>2, <1>3 DEF LookTree, OthersStay, TypeOK
  <2>3. /\ UNCHANGED <<warp, shared, stage, result, hadLauncher>>
        /\ pc'[i] = CASE warp -> "look launcher"
                     [] ~warp /\ shared["dest"] # Nothing -> "move tree"
                     [] OTHER -> "publish"
    BY <1>2, <1>3 DEF LookTree, TypeOK
  <2>4. NotLost'
    BY <1>2, <2>2, <2>3 DEF NotLost, Orderly, RuntimeNeverLost, OthersStay, Exists, Holds, Shared
  <2>5. Built(i)' /\ KeptTree(i)' /\ KeptLauncher(i)' /\ hadLauncher'[i] = FALSE
    <3>1. /\ Built(i) /\ hadLauncher[i] = FALSE
          /\ stage[i]["backup"] = Nothing /\ stage[i]["launcher backup"] = Nothing
      BY <1>2, <1>3 DEF LookTree, Placed
    <3> QED  BY <2>2, <2>3, <3>1 DEF Built, KeptTree, KeptLauncher
  <2>6. Placed(i)' /\ Seen(i)'
    <3>1. result[i] = "none"
      BY <1>2, <1>3 DEF LookTree, Seen
    <3> QED  BY <2>2, <2>3, <2>5, <3>1 DEF Placed, Seen, KeptTree, MovedTree
  <2>7. Elsewhere(i)'
    BY <1>2, <2>2, <2>3, <2>4, <2>5 DEF Elsewhere, Orderly, NotLost, RuntimeNeverLost, Known, KeptTree, Exists, Holds, Shared
  <2> QED  BY <1>1, <2>1, <2>2, <2>3, <2>4, <2>6, <2>7, Combined
<1>4. CASE LookLauncher(i)
  <2>1. TypeOK'
    BY <1>2, <1>4 DEF LookLauncher, failures, TypeOK, Position, Replacing
  <2>2. OthersStay(i) /\ (hadLauncher'[i] <=> shared["wrapper"] # Nothing)
    BY <1>2, <1>4 DEF LookLauncher, OthersStay, TypeOK
  <2>3. /\ UNCHANGED <<warp, shared, stage, result, hadPrevious, before>>
        /\ pc'[i] = CASE hadPrevious[i] -> "move tree"
                     [] ~hadPrevious[i] /\ shared["wrapper"] # Nothing -> "move launcher"
                     [] OTHER -> "publish"
    BY <1>2, <1>4 DEF LookLauncher, TypeOK
  <2>4. NotLost'
    BY <1>2, <2>3 DEF NotLost, Orderly, RuntimeNeverLost, Exists, Holds
  <2>5. Built(i) /\ KeptTree(i) /\ KeptLauncher(i) /\ warp /\ (hadPrevious[i] <=> before[i]["dest"] # Nothing)
    BY <1>2, <1>4 DEF LookLauncher, Placed, Seen
  <2>6. Placed(i)' /\ Seen(i)'
    <3>1. result[i] = "none"
      BY <1>2, <1>4 DEF LookLauncher, Seen
    <3> QED  BY <1>2, <2>2, <2>3, <2>5, <3>1 DEF Placed, Seen, Built, KeptTree, KeptLauncher, MovedTree, MovedLauncher, TypeOK
  <2>7. Elsewhere(i)'
    <3>1. pc[i] # "look"
      BY <1>4 DEF LookLauncher
    <3>2. (Known' <=> Known) /\ (Orderly' <=> Orderly)
      BY <2>3 DEF Known, Orderly
    <3> QED  BY <1>2, <2>3, <3>1, <3>2 DEF Elsewhere
  <2> QED  BY <1>1, <2>1, <2>2, <2>3, <2>4, <2>6, <2>7, Combined
<1> QED  BY <1>3, <1>4

(* What a rename does to the paths.                                        *)
LEMMA Moved ==
  ASSUME TypeOK, NEW i \in Installer, NEW from \in Shared \cup Private, NEW to \in Shared \cup Private,
         from # to, Move(i, [from |-> from, to |-> to])
  PROVE  /\ shared' \in [Shared -> Content] /\ stage' \in [Installer -> [Private -> Content]]
         /\ \A n \in Shared : shared'[n] =
              (IF n = to THEN Holds(i, from) ELSE IF n = from THEN Nothing ELSE shared[n])
         /\ \A n \in Private : stage'[i][n] =
              (IF n = to THEN Holds(i, from) ELSE IF n = from THEN Nothing ELSE stage[i][n])
         /\ \A j \in Installer \ {i} : stage'[j] = stage[j]
<1> DEFINE m == [from |-> from, to |-> to]
           held(n) == IF n = to THEN Holds(i, from) ELSE IF n = from THEN Nothing ELSE Holds(i, n)
           moved(n, h) == CASE n = m.to -> Holds(i, m.from) [] n = m.from -> Nothing [] OTHER -> h
<1>1. \A n \in Shared : Holds(i, n) = shared[n]
  BY DEF Holds
<1>2. \A n \in Private : Holds(i, n) = stage[i][n]
  BY DEF Holds, Shared, Private
<1>3. \A n \in Shared \cup Private : Holds(i, n) \in Content
  BY <1>1, <1>2 DEF TypeOK
<1>4. \A n \in Shared \cup Private : held(n) \in Content
  BY <1>3, NoInstaller
<1>5. shared' = [n \in Shared |-> held(n)] /\ stage' = [stage EXCEPT ![i] = [n \in Private |-> held(n)]]
  <2>1. /\ shared' = [n \in Shared |-> moved(n, shared[n])]
        /\ stage' = [stage EXCEPT ![i] = [n \in Private |-> moved(n, stage[i][n])]]
    BY DEF Move
  <2>2. \A n, h : moved(n, h) = (IF n = to THEN Holds(i, from) ELSE IF n = from THEN Nothing ELSE h)
    OBVIOUS
  <2> HIDE DEF moved
  <2>3. \A n \in Shared : moved(n, shared[n]) = held(n)
    BY <1>1, <2>2
  <2>4. \A n \in Private : moved(n, stage[i][n]) = held(n)
    BY <1>2, <2>2
  <2> QED  BY <2>1, <2>3, <2>4
<1> HIDE DEF held
<1>6. shared' \in [Shared -> Content] /\ stage' \in [Installer -> [Private -> Content]]
  BY <1>4, <1>5 DEF TypeOK
<1>7. /\ \A n \in Shared : shared'[n] = held(n)
      /\ \A n \in Private : stage'[i][n] = held(n)
      /\ \A j \in Installer \ {i} : stage'[j] = stage[j]
  BY <1>5 DEF TypeOK
<1> QED  BY <1>1, <1>2, <1>6, <1>7 DEF held

(* What a step leaves in place if it records nothing new.                  *)
LEMMA Remains ==
  ASSUME NEW i \in Installer, Seen(i), Elsewhere(i),
         OthersStay(i), UNCHANGED <<warp, result, looked>>,
         pc[i] \notin {"look", "look launcher", "cleaning"}
  PROVE  Seen(i)' /\ Elsewhere(i)'
<1>1. Known' <=> Known
  BY DEF Known, looked
<1> QED  BY <1>1 DEF Seen, Elsewhere, Orderly, OthersStay, looked

LEMMA RenameKeeps ==
  ASSUME Assumed, CutoverInv, NEW i \in Installer, Rename(i)
  PROVE  CutoverInv'
<1> DEFINE from == Moves[pc[i]].from
           to == Moves[pc[i]].to
<1> USE NoInstaller
<1>1. \A j \in Installer \ {i} : ~Working(j)
  BY OneAtATime DEF Step
<1>2. Working(i)
  BY DEF Rename, Working, Ended, Moves
<1>3. TypeOK /\ Placed(i) /\ Seen(i) /\ Elsewhere(i) /\ NotLost
  BY <1>2 DEF CutoverInv
<1>4. pc[i] \in {"move tree", "move launcher", "publish", "link", "displace launcher",
                "restore launcher", "displace tree", "restore tree"}
  BY DEF Rename, Moves
<1>5. /\ UNCHANGED <<warp, result, looked, failures>> /\ pc' = [pc EXCEPT ![i] = Successor(i)]
      /\ Exists(i, from) /\ (to \in Tree => ~Exists(i, to)) /\ Move(i, [from |-> from, to |-> to])
  <2>1. Moves[pc[i]] = [from |-> from, to |-> to]
    BY <1>4 DEF Moves
  <2> QED  BY <2>1 DEF Rename, Possible
<1>6. from \in Shared \cup Private /\ to \in Shared \cup Private /\ from # to
  BY <1>4 DEF Moves, Shared, Private, Displaced
<1>7. /\ shared' \in [Shared -> Content] /\ stage' \in [Installer -> [Private -> Content]]
      /\ \A n \in Shared : shared'[n] =
           (IF n = to THEN Holds(i, from) ELSE IF n = from THEN Nothing ELSE shared[n])
      /\ \A n \in Private : stage'[i][n] =
           (IF n = to THEN Holds(i, from) ELSE IF n = from THEN Nothing ELSE stage[i][n])
      /\ \A j \in Installer \ {i} : stage'[j] = stage[j]
  <2> HIDE DEF from, to
  <2> QED  BY ONLY <1>3, <1>5, <1>6, Moved
<1>8. Successor(i) \in Position \ {"idle", "look", "look launcher"}
  BY <1>4 DEF Successor, Position, Replacing, RollingBack
<1>9. TypeOK'
  <2> HIDE DEF from, to
  <2> QED  BY <1>3, <1>5, <1>7, <1>8 DEF TypeOK, looked, failures
<1>10. OthersStay(i) /\ pc'[i] = Successor(i)
  <2> HIDE DEF from, to
  <2> QED  BY <1>3, <1>5, <1>7 DEF TypeOK, OthersStay, looked
<1>11. Seen(i)' /\ Elsewhere(i)'
  <2> HIDE DEF from, to
  <2> QED  BY ONLY <1>3, <1>4, <1>5, <1>10, Remains
<1>12. ASSUME Placed(i)',
              Orderly /\ Known =>
                \/ shared'["dest"] # Nothing \/ stage'[i]["backup"] # Nothing
                \/ \E j \in Installer \ {i} : stage[j]["backup"] # Nothing
       PROVE  CutoverInv'
  <2>1. NotLost'
    <3>1. (Known' <=> Known) /\ (Orderly' <=> Orderly)
      BY <1>5 DEF Known, Orderly, looked
    <3> HIDE DEF from, to
    <3> QED  BY <1>7, <1>12, <3>1 DEF NotLost, RuntimeNeverLost, Known, Exists, Holds, Shared
  <2> QED  BY <1>1, <1>8, <1>9, <1>10, <1>11, <1>12, <2>1, Combined
<1>13. ASSUME shared'["dest"] = shared["dest"], stage'[i]["backup"] = stage[i]["backup"], Placed(i)'
       PROVE  CutoverInv'
  <2>1. Orderly /\ Known => shared["dest"] # Nothing \/ \E j \in Installer : stage[j]["backup"] # Nothing
    BY <1>3 DEF NotLost, RuntimeNeverLost, Known, Exists, Holds, Shared
  <2> HIDE DEF from, to
  <2> QED  BY <1>12, <1>13, <2>1
<1>14. /\ UNCHANGED <<warp, result, hadLauncher, hadPrevious, before, rollbackFailed>>
       /\ warp \in BOOLEAN /\ result[i] \in Result
  BY <1>3, <1>5 DEF looked, failures, TypeOK
<1>15. CASE pc[i] = "move tree"
  <2>1. from = "dest" /\ to = "backup"
    BY <1>15 DEF Moves
  <2>2. /\ shared'["dest"] = Nothing /\ stage'[i]["backup"] = shared["dest"]
        /\ shared'["wrapper"] = shared["wrapper"] /\ stage'[i]["launcher backup"] = stage[i]["launcher backup"]
        /\ stage'[i]["checkout"] = stage[i]["checkout"] /\ stage'[i]["staged"] = stage[i]["staged"]
        /\ shared["dest"] # Nothing
    BY <1>5, <1>7, <2>1 DEF Shared, Private, Holds, Exists
  <2>3. Built(i) /\ KeptTree(i) /\ KeptLauncher(i)
    BY <1>3, <1>15 DEF Placed
  <2>4. Built(i)' /\ MovedTree(i)' /\ KeptLauncher(i)'
    BY <1>14, <2>2, <2>3 DEF Built, KeptTree, KeptLauncher, MovedTree
  <2>5. pc'[i] = (IF hadLauncher[i] THEN "move launcher" ELSE "publish")
    BY <1>3, <1>10, <1>15 DEF Successor, TypeOK
  <2>6. hadLauncher[i] <=> warp /\ before[i]["wrapper"] # Nothing
    BY <1>3, <1>15 DEF Seen
  <2>7. Placed(i)'
    BY <1>14, <2>4, <2>5, <2>6 DEF Placed, KeptLauncher, MovedLauncher
  <2> QED  BY <1>12, <2>2, <2>7
<1>16. CASE pc[i] = "move launcher"
  <2>1. from = "wrapper" /\ to = "launcher backup"
    BY <1>16 DEF Moves, Displaced
  <2>2. /\ shared'["dest"] = shared["dest"]
        /\ shared'["wrapper"] = Nothing
        /\ stage'[i]["backup"] = stage[i]["backup"]
        /\ stage'[i]["launcher backup"] = shared["wrapper"]
        /\ stage'[i]["checkout"] = stage[i]["checkout"]
        /\ stage'[i]["staged"] = stage[i]["staged"]
        /\ shared["wrapper"] # Nothing
    BY <1>5, <1>7, <2>1 DEF Shared, Private, Holds, Exists
  <2>3. Built(i) /\ MovedTree(i) /\ KeptLauncher(i) /\ warp /\ (hadPrevious[i] <=> before[i]["dest"] # Nothing)
    BY <1>3, <1>16 DEF Placed, Seen
  <2>4. Built(i)' /\ MovedTree(i)' /\ MovedLauncher(i)'
    BY <1>14, <2>2, <2>3 DEF Built, MovedTree, KeptLauncher, MovedLauncher
  <2>5. pc'[i] = "publish"
    BY <1>3, <1>10, <1>16 DEF Successor, TypeOK
  <2>6. Placed(i)'
    BY <1>14, <2>2, <2>3, <2>4, <2>5 DEF Placed, Built, MovedTree, KeptLauncher, MovedLauncher
  <2> QED  BY <1>13, <2>2, <2>6
<1>17. CASE pc[i] = "publish"
  <2>1. from = "checkout" /\ to = "dest"
    BY <1>17 DEF Moves, Displaced
  <2>2. /\ shared'["dest"] = stage[i]["checkout"]
        /\ shared'["wrapper"] = shared["wrapper"]
        /\ stage'[i]["backup"] = stage[i]["backup"]
        /\ stage'[i]["launcher backup"] = stage[i]["launcher backup"]
        /\ stage'[i]["checkout"] = Nothing
        /\ stage'[i]["staged"] = stage[i]["staged"]
        /\ stage[i]["checkout"] # Nothing
    BY <1>5, <1>7, <2>1 DEF Shared, Private, Holds, Exists
  <2>3. Built(i) /\ MovedTree(i) /\ (warp => MovedLauncher(i)) /\ (~warp => KeptLauncher(i))
    BY <1>3, <1>17 DEF Placed, Seen
  <2>4. NewTree(i)' /\ (warp => MovedLauncher(i)') /\ (~warp => KeptLauncher(i)') /\ (warp => stage'[i]["staged"] = i)
    BY <1>14, <2>2, <2>3 DEF Built, MovedTree, NewTree, KeptLauncher, MovedLauncher, Replaced
  <2>5. pc'[i] = (IF warp THEN "link" ELSE "replaced")
    BY <1>3, <1>10, <1>17 DEF Successor, TypeOK
  <2>6. Placed(i)'
    BY <1>14, <2>2, <2>3, <2>4, <2>5 DEF Placed, Built, MovedTree, NewTree, KeptLauncher, MovedLauncher, Replaced
  <2> QED  BY <1>3, <1>12, <2>2, <2>3, <2>6 DEF Built
<1>18. CASE pc[i] = "link"
  <2>1. from = "staged" /\ to = "wrapper"
    BY <1>18 DEF Moves, Displaced
  <2>2. /\ shared'["dest"] = shared["dest"]
        /\ shared'["wrapper"] = stage[i]["staged"]
        /\ stage'[i]["backup"] = stage[i]["backup"]
        /\ stage'[i]["launcher backup"] = stage[i]["launcher backup"]
        /\ stage'[i]["checkout"] = stage[i]["checkout"]
        /\ stage'[i]["staged"] = Nothing
        /\ stage[i]["staged"] # Nothing
    BY <1>5, <1>7, <2>1 DEF Shared, Private, Holds, Exists
  <2>3. NewTree(i) /\ MovedLauncher(i) /\ warp /\ stage[i]["staged"] = i
    BY <1>3, <1>18 DEF Placed, Seen
  <2>4. NewTree(i)' /\ NewLauncher(i)'
    BY <1>14, <2>2, <2>3 DEF NewTree, MovedLauncher, NewLauncher, KeptLauncher, Replaced
  <2>5. pc'[i] = "replaced"
    BY <1>3, <1>10, <1>18 DEF Successor, TypeOK
  <2>6. Placed(i)'
    BY <1>14, <2>2, <2>3, <2>4, <2>5 DEF Placed, NewTree, MovedLauncher, NewLauncher, KeptLauncher, Replaced
  <2> QED  BY <1>3, <1>12, <2>2, <2>3, <2>6 DEF NewTree
<1>19. CASE pc[i] = "displace launcher"
  <2>1. from = "wrapper" /\ to = "failed launcher"
    BY <1>19 DEF Moves, Displaced
  <2>2. /\ shared'["dest"] = shared["dest"]
        /\ shared'["wrapper"] = Nothing
        /\ stage'[i]["backup"] = stage[i]["backup"]
        /\ stage'[i]["launcher backup"] = stage[i]["launcher backup"]
        /\ stage'[i]["checkout"] = stage[i]["checkout"]
        /\ stage'[i]["staged"] = stage[i]["staged"]
        /\ shared["wrapper"] # Nothing
    BY <1>5, <1>7, <2>1 DEF Shared, Private, Holds, Exists
  <2>3. AnyTree(i) /\ NewLauncher(i) /\ warp
    BY <1>3, <1>19 DEF Placed, Seen
  <2>4. AnyTree(i)' /\ MovedLauncher(i)'
    BY <1>14, <2>2, <2>3 DEF KeptTree, MovedTree, NewTree, AnyTree, KeptLauncher, MovedLauncher, NewLauncher, AnyLauncher
  <2>5. pc'[i] = (IF stage[i]["launcher backup"] # Nothing THEN "restore launcher" ELSE "rollback tree")
    BY <1>3, <1>10, <1>19 DEF Successor, TypeOK, Exists, Holds, Shared
  <2>6. Placed(i)'
    BY <1>14, <2>2, <2>3, <2>4, <2>5 DEF Placed, KeptTree, MovedTree, NewTree, AnyTree, KeptLauncher, MovedLauncher, NewLauncher, AnyLauncher
  <2> QED  BY <1>13, <2>2, <2>6
<1>20. CASE pc[i] = "restore launcher"
  <2>1. from = "launcher backup" /\ to = "wrapper"
    BY <1>20 DEF Moves, Displaced
  <2>2. /\ shared'["dest"] = shared["dest"]
        /\ shared'["wrapper"] = stage[i]["launcher backup"]
        /\ stage'[i]["backup"] = stage[i]["backup"]
        /\ stage'[i]["launcher backup"] = Nothing
        /\ stage'[i]["checkout"] = stage[i]["checkout"]
        /\ stage'[i]["staged"] = stage[i]["staged"]
        /\ stage[i]["launcher backup"] # Nothing
    BY <1>5, <1>7, <2>1 DEF Shared, Private, Holds, Exists
  <2>3. AnyTree(i) /\ MovedLauncher(i) /\ warp
    BY <1>3, <1>20 DEF Placed, Seen
  <2>4. AnyTree(i)' /\ KeptLauncher(i)'
    BY <1>14, <2>2, <2>3 DEF KeptTree, MovedTree, NewTree, AnyTree, KeptLauncher, MovedLauncher, NewLauncher, AnyLauncher
  <2>5. pc'[i] = "rollback tree"
    BY <1>3, <1>10, <1>20 DEF Successor, TypeOK
  <2>6. Placed(i)'
    BY <1>14, <2>2, <2>3, <2>4, <2>5 DEF Placed, KeptTree, MovedTree, NewTree, AnyTree, KeptLauncher, MovedLauncher, NewLauncher, AnyLauncher
  <2> QED  BY <1>13, <2>2, <2>6
<1>21. CASE pc[i] = "displace tree"
  <2>1. from = "dest" /\ to = "failed install"
    BY <1>21 DEF Moves, Displaced
  <2>2. /\ shared'["dest"] = Nothing
        /\ shared'["wrapper"] = shared["wrapper"]
        /\ stage'[i]["backup"] = stage[i]["backup"]
        /\ stage'[i]["launcher backup"] = stage[i]["launcher backup"]
        /\ stage'[i]["checkout"] = stage[i]["checkout"]
        /\ stage'[i]["staged"] = stage[i]["staged"]
        /\ shared["dest"] # Nothing
    BY <1>5, <1>7, <2>1 DEF Shared, Private, Holds, Exists
  <2>3. NewTree(i) /\ KeptLauncher(i) /\ warp
    BY <1>3, <1>21 DEF Placed, Seen
  <2>4. MovedTree(i)' /\ KeptLauncher(i)'
    BY <1>14, <2>2, <2>3 DEF KeptTree, MovedTree, NewTree, AnyTree, KeptLauncher, AnyLauncher, Restored, Orderly
  <2>5. pc'[i] = (IF stage[i]["backup"] # Nothing THEN "restore tree" ELSE "rolled back")
    BY <1>3, <1>10, <1>21 DEF Successor, TypeOK, Exists, Holds, Shared
  <2>6. Placed(i)'
    BY <1>14, <2>2, <2>3, <2>4, <2>5 DEF Placed, KeptTree, MovedTree, NewTree, AnyTree, KeptLauncher, AnyLauncher, Restored, Orderly
  <2>7. Orderly /\ Known /\ before[i]["dest"] = Nothing => \E j \in Installer \ {i} : stage[j]["backup"] # Nothing
    BY <1>3, <1>21 DEF Elsewhere, Seen
  <2>8. stage[i]["backup"] = before[i]["dest"]
    BY <2>3 DEF NewTree
  <2> QED  BY <1>12, <2>2, <2>6, <2>7, <2>8
<1>22. CASE pc[i] = "restore tree"
  <2>1. from = "backup" /\ to = "dest"
    BY <1>22 DEF Moves, Displaced
  <2>2. /\ shared'["dest"] = stage[i]["backup"]
        /\ shared'["wrapper"] = shared["wrapper"]
        /\ stage'[i]["backup"] = Nothing
        /\ stage'[i]["launcher backup"] = stage[i]["launcher backup"]
        /\ stage'[i]["checkout"] = stage[i]["checkout"]
        /\ stage'[i]["staged"] = stage[i]["staged"]
        /\ stage[i]["backup"] # Nothing
    BY <1>5, <1>7, <2>1 DEF Shared, Private, Holds, Exists
  <2>3. KeptLauncher(i) /\ (MovedTree(i) \/ NewTree(i))
    BY <1>3, <1>22 DEF Placed, Seen
  <2>4. KeptTree(i)' /\ KeptLauncher(i)'
    BY <1>14, <2>2, <2>3 DEF KeptTree, MovedTree, NewTree, AnyTree, KeptLauncher, AnyLauncher, Restored, Orderly
  <2>5. pc'[i] = "rolled back"
    BY <1>3, <1>10, <1>22 DEF Successor, TypeOK
  <2>6. Placed(i)'
    BY <1>14, <2>2, <2>3, <2>4, <2>5 DEF Placed, KeptTree, MovedTree, NewTree, AnyTree, KeptLauncher, AnyLauncher, Restored, Orderly
  <2> QED  BY <1>12, <2>2, <2>6
<1> QED
  BY <1>4, <1>15, <1>16, <1>17, <1>18, <1>19, <1>20, <1>21, <1>22

(* Errors and interrupts that no state explains are bounded.               *)
LEMMA MishapTyped ==
  ASSUME TypeOK, NEW i \in Installer, Mishap(i)
  PROVE  mishaps' \in [Installer -> 0..Mishaps]
<1>1. mishaps \in [Installer -> 0..Mishaps] /\ Mishaps \in Nat
  BY Switches DEF TypeOK
<1>2. mishaps[i] < Mishaps => mishaps[i] + 1 \in 0..Mishaps
  BY <1>1
<1> QED  BY <1>1, <1>2 DEF Mishap

(* A run goes on, and the paths stay.                                      *)
LEMMA GoesOn ==
  ASSUME CutoverInv, NEW i \in Installer, \A j \in Installer \ {i} : ~Working(j), Working(i),
         pc[i] \notin {"look", "look launcher", "cleaning"},
         NEW where \in Position \ {"idle"}, pc' = [pc EXCEPT ![i] = where],
         UNCHANGED <<warp, result, shared, stage, looked>>,
         rollbackFailed' \in [Installer -> BOOLEAN], mishaps' \in [Installer -> 0..Mishaps],
         Placed(i)'
  PROVE  CutoverInv'
<1>1. TypeOK /\ Seen(i) /\ Elsewhere(i) /\ NotLost
  BY DEF CutoverInv
<1>2. TypeOK'
  BY <1>1 DEF TypeOK, looked
<1>3. OthersStay(i) /\ pc'[i] = where
  BY <1>1 DEF OthersStay, TypeOK, looked
<1>4. Seen(i)' /\ Elsewhere(i)'
  BY <1>1, <1>3, Remains
<1>5. NotLost'
  BY <1>1 DEF NotLost, Orderly, RuntimeNeverLost, Exists, Holds, looked
<1> QED  BY <1>2, <1>3, <1>4, <1>5, Combined

LEMMA FailKeeps ==
  ASSUME Assumed, CutoverInv, NEW i \in Installer, Fail(i)
  PROVE  CutoverInv'
<1>1. \A j \in Installer \ {i} : ~Working(j)
  BY OneAtATime DEF Step
<1>2. Working(i) /\ TypeOK /\ Placed(i) /\ Seen(i)
  BY DEF CutoverInv, Fail, Working, Ended, Replacing
<1>3. /\ pc' = [pc EXCEPT ![i] = IF warp THEN "rollback" ELSE "rollback tree"]
      /\ UNCHANGED <<warp, result, shared, stage, looked, rollbackFailed>>
  BY DEF Fail
<1>4. rollbackFailed' \in [Installer -> BOOLEAN] /\ mishaps' \in [Installer -> 0..Mishaps]
  BY <1>2, <1>3, MishapTyped DEF Fail, TypeOK
<1>5. pc[i] \in Replacing
  BY DEF Fail
<1>6. AnyTree(i) /\ (warp => AnyLauncher(i)) /\ (~warp => KeptLauncher(i))
  BY <1>2, <1>5 DEF Placed, Replacing, Replaced, AnyTree, AnyLauncher
<1>7. pc'[i] = (IF warp THEN "rollback" ELSE "rollback tree")
  BY <1>2, <1>3 DEF TypeOK
<1>8. /\ AnyTree(i)' <=> AnyTree(i)
      /\ AnyLauncher(i)' <=> AnyLauncher(i)
      /\ KeptLauncher(i)' <=> KeptLauncher(i)
      /\ warp' <=> warp
  BY <1>3 DEF AnyTree, KeptTree, MovedTree, NewTree, AnyLauncher, KeptLauncher, MovedLauncher, NewLauncher, looked
<1>9. Placed(i)'
  <2>1. CASE warp
    BY <1>6, <1>7, <1>8, <2>1 DEF Placed
  <2>2. CASE ~warp
    BY <1>6, <1>7, <1>8, <2>2 DEF Placed
  <2> QED  BY <2>1, <2>2
<1> QED
  BY <1>1, <1>2, <1>3, <1>4, <1>5, <1>9, GoesOn DEF Replacing, RollingBack, Position

LEMMA RollbackFailsKeeps ==
  ASSUME Assumed, CutoverInv, NEW i \in Installer, RollbackFails(i)
  PROVE  CutoverInv'
<1>1. \A j \in Installer \ {i} : ~Working(j)
  BY OneAtATime DEF Step
<1>2. Working(i) /\ TypeOK /\ Placed(i) /\ Seen(i)
  BY DEF CutoverInv, RollbackFails, Working, Ended, RollingBack
<1>3. /\ pc' = [pc EXCEPT ![i] = "rolled back"]
      /\ rollbackFailed' = [rollbackFailed EXCEPT ![i] = warp \/ pc[i] = "restore tree"]
      /\ UNCHANGED <<warp, result, shared, stage, looked>>
      /\ warp \/ pc[i] = "restore tree" \/ Escaping
  BY DEF RollbackFails
<1>4. rollbackFailed' \in [Installer -> BOOLEAN] /\ mishaps' \in [Installer -> 0..Mishaps]
  BY <1>2, <1>3, MishapTyped DEF RollbackFails, TypeOK
<1>5. pc[i] \in RollingBack
  BY DEF RollbackFails
<1>6. AnyTree(i) /\ AnyLauncher(i)
  BY <1>2, <1>5 DEF Placed, RollingBack, AnyTree, AnyLauncher
<1>7. pc'[i] = "rolled back" /\ (rollbackFailed'[i] \/ ~Orderly')
  BY <1>2, <1>3 DEF TypeOK, Orderly
<1>8. Placed(i)'
  BY <1>3, <1>6, <1>7 DEF Placed, Restored, AnyTree, KeptTree, MovedTree, NewTree, AnyLauncher, KeptLauncher,
     MovedLauncher, NewLauncher, looked
<1> QED
  BY <1>1, <1>2, <1>3, <1>4, <1>5, <1>8, GoesOn DEF RollingBack, Position

(* The launcher goes back first, then the tree.                            *)
LEMMA RollBackKeeps ==
  ASSUME Assumed, CutoverInv, NEW i \in Installer, RollBackLauncher(i) \/ RollBackTree(i)
  PROVE  CutoverInv'
<1> USE NoInstaller
<1>1. \A j \in Installer \ {i} : ~Working(j)
  BY OneAtATime DEF Step
<1>2. Working(i) /\ TypeOK /\ Placed(i) /\ Seen(i)
  BY DEF CutoverInv, RollBackLauncher, RollBackTree, Working, Ended
<1>3. UNCHANGED <<warp, result, shared, stage, looked, failures>>
  BY DEF RollBackLauncher, RollBackTree
<1>4. rollbackFailed' \in [Installer -> BOOLEAN] /\ mishaps' \in [Installer -> 0..Mishaps]
  BY <1>2, <1>3 DEF TypeOK, failures
<1>5. /\ hadPrevious[i] <=> before[i]["dest"] # Nothing
      /\ hadLauncher[i] <=> warp /\ before[i]["wrapper"] # Nothing
  BY <1>2 DEF Seen, RollBackLauncher, RollBackTree
<1> DEFINE wrapper == shared["wrapper"] # Nothing
           saved == stage[i]["launcher backup"] # Nothing
           dest == shared["dest"] # Nothing
           backup == stage[i]["backup"] # Nothing
<1>6. CASE RollBackLauncher(i)
  <2>1. AnyTree(i) /\ AnyLauncher(i) /\ warp
    BY <1>2, <1>6 DEF RollBackLauncher, Placed
  <2>2. pc' = [pc EXCEPT ![i] =
          CASE wrapper /\ (saved \/ ~hadLauncher[i]) -> "displace launcher"
            [] ~wrapper /\ saved -> "restore launcher"
            [] OTHER -> "rollback tree"]
    BY <1>6 DEF RollBackLauncher, Exists, Holds, Shared
  <2>3. \E where \in {"displace launcher", "restore launcher", "rollback tree"} :
          /\ pc' = [pc EXCEPT ![i] = where]
          /\ where = "displace launcher" => NewLauncher(i)
          /\ where = "restore launcher" => MovedLauncher(i)
          /\ where = "rollback tree" => KeptLauncher(i)
    <3>1. CASE wrapper /\ (saved \/ ~hadLauncher[i])
      BY <1>5, <2>1, <2>2, <3>1 DEF AnyLauncher, KeptLauncher, MovedLauncher, NewLauncher
    <3>2. CASE ~wrapper /\ saved
      BY <1>5, <2>1, <2>2, <3>2 DEF AnyLauncher, KeptLauncher, MovedLauncher, NewLauncher
    <3>3. CASE ~(wrapper /\ (saved \/ ~hadLauncher[i])) /\ ~(~wrapper /\ saved)
      BY <1>5, <2>1, <2>2, <3>3 DEF AnyLauncher, KeptLauncher, MovedLauncher, NewLauncher
    <3> QED  BY <3>1, <3>2, <3>3
  <2>4. PICK where \in {"displace launcher", "restore launcher", "rollback tree"} :
          /\ pc' = [pc EXCEPT ![i] = where]
          /\ where = "displace launcher" => NewLauncher(i)
          /\ where = "restore launcher" => MovedLauncher(i)
          /\ where = "rollback tree" => KeptLauncher(i)
    BY <2>3
  <2>5. pc'[i] = where
    BY <1>2, <2>4 DEF TypeOK
  <2>6. Placed(i)'
    BY <1>3, <2>1, <2>4, <2>5 DEF Placed, AnyTree, KeptTree, MovedTree, NewTree, AnyLauncher, KeptLauncher,
       MovedLauncher, NewLauncher, looked
  <2> QED
    BY <1>1, <1>2, <1>3, <1>4, <1>6, <2>4, <2>6, GoesOn DEF RollBackLauncher, RollingBack, Position
<1>7. CASE RollBackTree(i)
  <2>1. AnyTree(i) /\ KeptLauncher(i)
    BY <1>2, <1>7 DEF RollBackTree, Placed
  <2>2. pc' = [pc EXCEPT ![i] =
          CASE warp /\ dest /\ (backup \/ ~hadPrevious[i]) -> "displace tree"
            [] backup /\ ~(warp /\ dest) -> "restore tree"
            [] OTHER -> "rolled back"]
    BY <1>7 DEF RollBackTree, Exists, Holds, Shared
  <2>3. \E where \in {"displace tree", "restore tree", "rolled back"} :
          /\ pc' = [pc EXCEPT ![i] = where]
          /\ where = "displace tree" => warp /\ NewTree(i)
          /\ where = "restore tree" => MovedTree(i) \/ (NewTree(i) /\ before[i]["dest"] # Nothing)
          /\ where = "rolled back" =>
               KeptTree(i) \/ (~warp /\ before[i]["dest"] = Nothing /\ shared["dest"] = i)
    <3>1. CASE warp /\ dest /\ (backup \/ ~hadPrevious[i])
      BY <1>5, <2>1, <2>2, <3>1 DEF AnyTree, KeptTree, MovedTree, NewTree
    <3>2. CASE backup /\ ~(warp /\ dest)
      BY <1>5, <2>1, <2>2, <3>2 DEF AnyTree, KeptTree, MovedTree, NewTree
    <3>3. CASE ~(warp /\ dest /\ (backup \/ ~hadPrevious[i])) /\ ~(backup /\ ~(warp /\ dest))
      BY <1>5, <2>1, <2>2, <3>3 DEF AnyTree, KeptTree, MovedTree, NewTree
    <3> QED  BY <3>1, <3>2, <3>3
  <2>4. PICK where \in {"displace tree", "restore tree", "rolled back"} :
          /\ pc' = [pc EXCEPT ![i] = where]
          /\ where = "displace tree" => warp /\ NewTree(i)
          /\ where = "restore tree" => MovedTree(i) \/ (NewTree(i) /\ before[i]["dest"] # Nothing)
          /\ where = "rolled back" =>
               KeptTree(i) \/ (~warp /\ before[i]["dest"] = Nothing /\ shared["dest"] = i)
    BY <2>3
  <2>5. pc'[i] = where
    BY <1>2, <2>4 DEF TypeOK
  <2>6. Placed(i)'
    BY <1>3, <2>1, <2>4, <2>5 DEF Placed, Restored, Orderly, AnyTree, KeptTree, MovedTree, NewTree, AnyLauncher,
       KeptLauncher, MovedLauncher, NewLauncher, looked
  <2> QED
    BY <1>1, <1>2, <1>3, <1>4, <1>7, <2>4, <2>6, GoesOn DEF RollBackTree, RollingBack, Position
<1> QED  BY <1>6, <1>7

(* A run reports, and its stage directory goes.                            *)
LEMMA FinishKeeps ==
  ASSUME Assumed, CutoverInv, NEW i \in Installer, Finish(i)
  PROVE  CutoverInv'
<1> USE NoInstaller
<1>1. \A j \in Installer \ {i} : ~Working(j)
  BY OneAtATime DEF Step
<1>2. Working(i) /\ TypeOK /\ Placed(i) /\ Seen(i) /\ Elsewhere(i) /\ NotLost
  BY DEF CutoverInv, Finish, Working, Ended
<1>3. /\ pc[i] \in {"replaced", "rolled back"} /\ UNCHANGED <<warp, shared, stage, looked, failures>>
      /\ pc'[i] = "cleaning"
      /\ result'[i] = (IF pc[i] = "replaced" THEN "installed" ELSE "failed")
      /\ \A j \in Installer \ {i} : pc'[j] = pc[j] /\ result'[j] = result[j]
  BY <1>2 DEF Finish, TypeOK
<1>4. TypeOK'
  BY <1>2 DEF Finish, looked, failures, TypeOK, Position, Result
<1>5. OthersStay(i)
  BY <1>3 DEF OthersStay, looked
<1>6. Placed(i)'
  <2>1. pc[i] = "replaced" => Replaced(i)
    BY <1>2 DEF Placed
  <2>2. pc[i] = "rolled back" => Restored(i)
    BY <1>2 DEF Placed
  <2>3. UNCHANGED <<warp, shared, stage, before, rollbackFailed>>
    BY <1>3 DEF looked, failures
  <2>4. (Replaced(i)' <=> Replaced(i)) /\ (Restored(i)' <=> Restored(i))
    BY <2>3 DEF Replaced, Restored, Orderly, AnyTree, KeptTree, MovedTree, NewTree, AnyLauncher, KeptLauncher,
       MovedLauncher, NewLauncher
  <2> QED  BY <1>3, <2>1, <2>2, <2>4 DEF Placed
<1>7. Seen(i)'
  BY <1>2, <1>3 DEF Seen, looked
<1>8. Known' => Known \/ result'[i] = "installed"
  BY <1>3 DEF Known, looked
<1>9. Elsewhere(i)'
  BY <1>2, <1>3, <1>8 DEF Elsewhere, Orderly, Seen, looked
<1>10. NotLost'
  <2>1. result'[i] = "installed" => shared["dest"] = i
    BY <1>2, <1>3 DEF Placed, Replaced, NewTree
  <2> QED  BY <1>2, <1>3, <1>8, <2>1 DEF NotLost, Orderly, RuntimeNeverLost, Known, Exists, Holds
<1> QED  BY <1>1, <1>3, <1>4, <1>5, <1>6, <1>7, <1>9, <1>10, Combined

LEMMA CleanKeeps ==
  ASSUME Assumed, CutoverInv, NEW i \in Installer, Clean(i)
  PROVE  CutoverInv'
<1> USE NoInstaller
<1>1. \A j \in Installer \ {i} : ~Working(j)
  BY OneAtATime DEF Step
<1>2. Working(i) /\ TypeOK /\ Placed(i) /\ Seen(i) /\ Elsewhere(i) /\ NotLost
  BY DEF CutoverInv, Clean, Working, Ended
<1>3. /\ pc[i] = "cleaning" /\ UNCHANGED <<warp, result, shared, looked, failures>> /\ pc'[i] = "done"
      /\ \A j \in Installer \ {i} : pc'[j] = pc[j] /\ stage'[j] = stage[j]
      /\ rollbackFailed[i] => stage'[i]["backup"] = stage[i]["backup"]
  <2>1. stage[i] \in [Private -> Content] /\ stage \in [Installer -> [Private -> Content]]
    BY <1>2 DEF TypeOK
  <2>2. "backup" \in Private /\ "backup" # "staged"
    BY DEF Private
  <2>3. rollbackFailed[i] => stage' = [stage EXCEPT ![i] = [stage[i] EXCEPT !["staged"] = Nothing]]
    BY DEF Clean
  <2>4. rollbackFailed[i] => stage'[i]["backup"] = stage[i]["backup"]
    BY <2>1, <2>2, <2>3
  <2> QED  BY <1>2, <2>4 DEF Clean, TypeOK
<1>4. TypeOK'
  BY <1>2 DEF Clean, looked, failures, TypeOK, Position, Ended, Empty
<1>5. OthersStay(i) /\ (Known' <=> Known)
  BY <1>3 DEF OthersStay, looked, Known
<1>6. NotLost'
  <2>1. Orderly /\ Known =>
          \/ shared["dest"] # Nothing
          \/ rollbackFailed[i] /\ stage[i]["backup"] # Nothing
          \/ \E j \in Installer \ {i} : stage[j]["backup"] # Nothing
    <3> SUFFICES ASSUME Orderly, Known, shared["dest"] = Nothing
                 PROVE  \/ rollbackFailed[i] /\ stage[i]["backup"] # Nothing
                        \/ \E j \in Installer \ {i} : stage[j]["backup"] # Nothing
      OBVIOUS
    <3>1. shared["dest"] # Nothing \/ \E j \in Installer : stage[j]["backup"] # Nothing
      BY <1>2 DEF NotLost, RuntimeNeverLost, Known, Exists, Holds, Shared
    <3>2. CASE rollbackFailed[i]
      BY <3>1, <3>2
    <3>3. CASE ~rollbackFailed[i]
      <4>1. result[i] = "failed" /\ before[i]["dest"] = Nothing
        BY <1>2, <1>3, <3>3 DEF Placed, Replaced, Restored, NewTree, KeptTree
      <4> QED  BY <1>2, <1>3, <4>1 DEF Elsewhere
    <3> QED  BY <3>2, <3>3
  <2>2. Orderly' <=> Orderly
    BY <1>3 DEF Orderly
  <2> QED  BY <1>3, <1>5, <2>1, <2>2 DEF NotLost, RuntimeNeverLost, Known, Exists, Holds, Shared
<1> QED  BY <1>1, <1>3, <1>4, <1>5, <1>6, Combined DEF Working, Ended

LEMMA KillKeeps ==
  ASSUME Assumed, CutoverInv, NEW i \in Installer, Kill(i)
  PROVE  CutoverInv'
<1>1. \A j \in Installer \ {i} : ~Working(j)
  BY OneAtATime DEF Step
<1>2. TypeOK /\ NotLost
  BY DEF CutoverInv
<1>3. TypeOK' /\ OthersStay(i) /\ pc'[i] = "killed"
  BY <1>2 DEF Kill, looked, failures, TypeOK, Position, Ended, OthersStay
<1>4. NotLost'
  BY <1>2 DEF Kill, looked, NotLost, Orderly, RuntimeNeverLost, Exists, Holds
<1> QED  BY <1>1, <1>3, <1>4, Combined DEF Working, Ended

LEMMA CutoverStep == ASSUME Assumed PROVE CutoverInv /\ [Next]_vars => CutoverInv'
<1> SUFFICES ASSUME CutoverInv, [Next]_vars PROVE CutoverInv'
  OBVIOUS
<1>1. ASSUME NEW i \in Installer, Step(i) PROVE CutoverInv'
  BY <1>1, BeginKeeps, LookKeeps, RenameKeeps, FailKeeps, RollbackFailsKeeps, RollBackKeeps,
     FinishKeeps, CleanKeeps, KillKeeps DEF Step
<1>2. CASE UNCHANGED vars
  <2>1. UNCHANGED <<warp, pc, result, shared, stage, hadPrevious, hadLauncher, rollbackFailed, mishaps, before>>
    BY <1>2 DEF vars
  <2>2. TypeOK' /\ OneRun' /\ NotLost'
    BY <2>1 DEF CutoverInv, TypeOK, OneRun, Working, NotLost, Orderly, RuntimeNeverLost, Exists, Holds
  <2>3. ASSUME NEW i \in Installer
        PROVE  Idle(i)' /\ (Working(i)' => Seen(i)' /\ Elsewhere(i)')
    BY <2>1, <2>3 DEF CutoverInv, Idle, Working, Seen, Elsewhere, Orderly, Known
  <2>4. ASSUME NEW i \in Installer
        PROVE  Working(i)' => Placed(i)'
    BY <2>1, <2>4 DEF CutoverInv, Working, Placed, Built, Replaced, Restored, Orderly, AnyTree, KeptTree, MovedTree,
       NewTree, AnyLauncher, KeptLauncher, MovedLauncher, NewLauncher
  <2> QED  BY <2>2, <2>3, <2>4 DEF CutoverInv
<1> QED  BY <1>1, <1>2 DEF Next

(* The invariant of the cutover, for any number of runs, errors,           *)
(* interrupts and kills (install_warp and install_dwarfstar), those in a   *)
(* handler included.                                                       *)
THEOREM CutoverSafe == ASSUME Assumed PROVE Spec => []CutoverInv
<1> QED  BY CutoverInit, CutoverStep, PTL DEF Spec

LEMMA StaysOrderly == Spec /\ Orderly => []Orderly
<1>1. Orderly /\ [Next]_vars => Orderly'
  <2> SUFFICES ASSUME Orderly, [Next]_vars PROVE Orderly'
    OBVIOUS
  <2>1. UNCHANGED warp
    BY DEF Next, vars, Step, Reuse, Build, LookTree, LookLauncher, Rename, Fail, RollbackFails,
           RollBackLauncher, RollBackTree, Finish, Clean, Kill
  <2> QED  BY <2>1 DEF Orderly
<1> QED  BY <1>1, PTL DEF Spec

(* A runtime that was there, or was reported as installed, stays in place  *)
(* or in a backup (install.py:603-637, 483-494), if the run is orderly.    *)
THEOREM NeverLost == ASSUME Assumed PROVE Spec /\ Orderly => []RuntimeNeverLost
<1>1. CutoverInv /\ Orderly => RuntimeNeverLost
  BY DEF CutoverInv, NotLost
<1> QED  BY <1>1, CutoverSafe, StaysOrderly, PTL

(* When a run ends there is the new tree with its launcher, or all is as   *)
(* it was, or the recovery files are retained (the rollback's end), if the *)
(* run is orderly.                                                         *)
THEOREM NothingInBetween == ASSUME Assumed PROVE Spec /\ Orderly => []AllOrNothing
<1>1. ASSUME CutoverInv, Orderly PROVE AllOrNothing
  <2> SUFFICES ASSUME NEW i \in Installer, pc[i] = "cleaning"
               PROVE  /\ result[i] = "installed" => shared["dest"] = i /\ (warp => shared["wrapper"] = i)
                      /\ result[i] = "failed" =>
                           \/ rollbackFailed[i]
                           \/ shared = before[i]
                           \/ ~warp /\ before[i]["dest"] = Nothing /\ shared["dest"] = i
    BY DEF AllOrNothing
  <2>1. TypeOK /\ Placed(i)
    BY <1>1 DEF CutoverInv, Working, Ended
  <2>2. shared["dest"] = before[i]["dest"] /\ shared["wrapper"] = before[i]["wrapper"] => shared = before[i]
    BY <2>1 DEF TypeOK, Shared
  <2> QED
    BY <1>1, <2>1, <2>2 DEF Placed, Replaced, Restored, NewTree, NewLauncher, KeptTree, KeptLauncher
<1>2. CutoverInv /\ Orderly => AllOrNothing
  BY <1>1
<1> QED  BY <1>2, CutoverSafe, StaysOrderly, PTL

(* What a failed rollback leaves can be put back by hand (the recovery     *)
(* directory of a rollback that failed), whenever interrupts come.         *)
THEOREM HandRecovery == ASSUME Assumed PROVE Spec => []Recoverable
<1>1. ASSUME CutoverInv PROVE Recoverable
  <2> SUFFICES ASSUME NEW i \in Installer, pc[i] = "cleaning", rollbackFailed[i]
               PROVE  /\ before[i]["dest"] \in {shared["dest"], stage[i]["backup"]}
                      /\ before[i]["wrapper"] \in {shared["wrapper"], stage[i]["launcher backup"]}
    BY DEF Recoverable
  <2>1. Placed(i)
    BY <1>1 DEF CutoverInv, Working, Ended
  <2> QED
    BY <2>1 DEF Placed, Replaced, Restored, AnyTree, KeptTree, MovedTree, NewTree, AnyLauncher,
       KeptLauncher, MovedLauncher, NewLauncher
<1>2. CutoverInv => Recoverable
  BY <1>1
<1> QED  BY <1>2, CutoverSafe, PTL

-------------------------------------------------------------------------------
(***************************************************************************)
(* The cutover implements Installation: what a run replaces it has in a    *)
(* backup until it has reported, the launcher is never newer than the      *)
(* tree, and nobody works beside what was reported.                        *)
(***************************************************************************)
BackupsOld ==
  \A i \in Installer : {stage[i]["backup"], stage[i]["launcher backup"]} \subseteq {Old, Nothing}

LauncherFollows ==
  /\ shared["wrapper"] \in Installer => shared["dest"] = shared["wrapper"]
  /\ ~warp => shared["wrapper"] = Nothing /\ \A i \in Installer : stage[i]["launcher backup"] = Nothing

(* A run works only where no other has installed, and one that rolled back *)
(* leaves no backup behind.                                                *)
Fresh(i) ==
  /\ pc[i] = "look" => shared["dest"] \notin Installer
  /\ pc[i] # "look" => {before[i]["dest"], before[i]["wrapper"]} \cap Installer = {}
  /\ pc[i] \in {"rolled back", "cleaning"} /\ result[i] # "installed" /\ ~rollbackFailed[i] =>
       stage[i]["backup"] = Nothing /\ stage[i]["launcher backup"] = Nothing

Settled ==
  Reported =>
    /\ shared["dest"] \in Installer
    /\ \A i \in Installer : Working(i) => pc[i] = "cleaning" /\ result[i] = "installed"

UpgradeInv ==
  BackupsOld /\ LauncherFollows /\ (\A i \in Installer : Working(i) => Fresh(i)) /\ Settled

LEMMA UpgradeInit == Init => UpgradeInv
<1> SUFFICES ASSUME Init PROVE UpgradeInv
  OBVIOUS
<1> USE NoInstaller DEF Init
<1>1. BackupsOld
  BY DEF BackupsOld, Empty, Private
<1>2. LauncherFollows
  BY DEF LauncherFollows, Shared, Empty, Private
<1> QED  BY <1>1, <1>2 DEF UpgradeInv, Working, Settled, Reported

(* What each rename does to the tree, the launcher and their backups.      *)
LEMMA Renamed ==
  ASSUME TypeOK, NEW i \in Installer, Rename(i)
  PROVE  /\ UNCHANGED <<warp, result, before, rollbackFailed>>
         /\ \A j \in Installer \ {i} : stage'[j] = stage[j] /\ pc'[j] = pc[j]
         /\ pc'[i] = Successor(i)
         /\ pc[i] \notin {"move tree", "publish", "displace tree", "restore tree"} =>
              shared'["dest"] = shared["dest"] /\ stage'[i]["backup"] = stage[i]["backup"]
         /\ pc[i] \in {"move tree", "publish", "displace tree", "restore tree"} =>
              /\ shared'["wrapper"] = shared["wrapper"]
              /\ stage'[i]["launcher backup"] = stage[i]["launcher backup"]
         /\ pc[i] = "move tree" =>
              /\ shared["dest"] # Nothing /\ shared'["dest"] = Nothing
              /\ stage'[i]["backup"] = shared["dest"]
         /\ pc[i] = "publish" =>
              /\ shared["dest"] = Nothing /\ shared'["dest"] = stage[i]["checkout"]
              /\ stage'[i]["backup"] = stage[i]["backup"]
         /\ pc[i] = "displace tree" =>
              shared'["dest"] = Nothing /\ stage'[i]["backup"] = stage[i]["backup"]
         /\ pc[i] = "restore tree" =>
              /\ stage[i]["backup"] # Nothing /\ shared["dest"] = Nothing /\ shared'["dest"] = stage[i]["backup"]
              /\ stage'[i]["backup"] = Nothing
         /\ pc[i] = "move launcher" =>
              /\ shared["wrapper"] # Nothing /\ shared'["wrapper"] = Nothing
              /\ stage'[i]["launcher backup"] = shared["wrapper"]
         /\ pc[i] = "link" =>
              /\ shared'["wrapper"] = stage[i]["staged"]
              /\ stage'[i]["launcher backup"] = stage[i]["launcher backup"]
         /\ pc[i] = "displace launcher" =>
              /\ shared'["wrapper"] = Nothing
              /\ stage'[i]["launcher backup"] = stage[i]["launcher backup"]
         /\ pc[i] = "restore launcher" =>
              /\ stage[i]["launcher backup"] # Nothing
              /\ shared'["wrapper"] = stage[i]["launcher backup"] /\ stage'[i]["launcher backup"] = Nothing
<1> DEFINE from == Moves[pc[i]].from
           to == Moves[pc[i]].to
<1>1. pc[i] \in {"move tree", "move launcher", "publish", "link", "displace launcher",
                "restore launcher", "displace tree", "restore tree"}
  BY DEF Rename, Moves
<1>2. /\ UNCHANGED <<warp, result, looked, failures>> /\ pc' = [pc EXCEPT ![i] = Successor(i)]
      /\ Exists(i, from) /\ (to \in Tree => ~Exists(i, to)) /\ Move(i, [from |-> from, to |-> to])
  <2>1. Moves[pc[i]] = [from |-> from, to |-> to]
    BY <1>1 DEF Moves
  <2> QED  BY <2>1 DEF Rename, Possible
<1>3. from \in Shared \cup Private /\ to \in Shared \cup Private /\ from # to
  BY <1>1 DEF Moves, Shared, Private, Displaced
<1>4. /\ \A n \in Shared : shared'[n] =
           (IF n = to THEN Holds(i, from) ELSE IF n = from THEN Nothing ELSE shared[n])
      /\ \A n \in Private : stage'[i][n] =
           (IF n = to THEN Holds(i, from) ELSE IF n = from THEN Nothing ELSE stage[i][n])
      /\ \A j \in Installer \ {i} : stage'[j] = stage[j]
  <2> HIDE DEF from, to
  <2> QED  BY ONLY TypeOK, <1>2, <1>3, Moved
<1>5. /\ UNCHANGED <<warp, result, before, rollbackFailed>> /\ pc'[i] = Successor(i)
      /\ \A j \in Installer \ {i} : stage'[j] = stage[j] /\ pc'[j] = pc[j]
  <2> HIDE DEF from, to
  <2> QED  BY <1>2, <1>4 DEF TypeOK, looked, failures
<1> USE DEF Shared, Private, Holds
<1>6. CASE pc[i] = "move tree"
  <2>1. from = "dest" /\ to = "backup"  BY <1>6 DEF Moves
  <2> QED  BY <1>2, <1>4, <1>5, <1>6, <2>1 DEF Exists
<1>7. CASE pc[i] = "publish"
  <2>1. from = "checkout" /\ to = "dest"  BY <1>7 DEF Moves
  <2> QED  BY <1>2, <1>4, <1>5, <1>7, <2>1 DEF Exists, Tree
<1>8. CASE pc[i] = "displace tree"
  <2>1. from = "dest" /\ to = "failed install"  BY <1>8 DEF Moves
  <2> QED  BY <1>4, <1>5, <1>8, <2>1
<1>9. CASE pc[i] = "restore tree"
  <2>1. from = "backup" /\ to = "dest"  BY <1>9 DEF Moves
  <2> QED  BY <1>2, <1>4, <1>5, <1>9, <2>1 DEF Exists, Tree
<1>10. CASE pc[i] = "move launcher"
  <2>1. from = "wrapper" /\ to = "launcher backup"  BY <1>10 DEF Moves
  <2> QED  BY <1>2, <1>4, <1>5, <1>10, <2>1 DEF Exists
<1>11. CASE pc[i] = "link"
  <2>1. from = "staged" /\ to = "wrapper"  BY <1>11 DEF Moves
  <2> QED  BY <1>4, <1>5, <1>11, <2>1
<1>12. CASE pc[i] = "displace launcher"
  <2>1. from = "wrapper" /\ to = "failed launcher"  BY <1>12 DEF Moves, Displaced
  <2> QED  BY <1>4, <1>5, <1>12, <2>1
<1>13. CASE pc[i] = "restore launcher"
  <2>1. from = "launcher backup" /\ to = "wrapper"  BY <1>13 DEF Moves
  <2> QED  BY <1>2, <1>4, <1>5, <1>13, <2>1 DEF Exists
<1> QED  BY <1>1, <1>6, <1>7, <1>8, <1>9, <1>10, <1>11, <1>12, <1>13

(* Every step but the renames and the ends of a run leaves the paths.      *)
LEMMA PathsStay ==
  ASSUME TypeOK, NEW i \in Installer, Step(i), ~Rename(i)
  PROVE  /\ UNCHANGED <<warp, shared>>
         /\ \A j \in Installer \ {i} :
              /\ pc'[j] = pc[j] /\ stage'[j] = stage[j] /\ before'[j] = before[j]
              /\ result'[j] = result[j] /\ rollbackFailed'[j] = rollbackFailed[j]
         /\ stage'[i] = stage[i] \/ Build(i) \/ Clean(i)
<1> USE DEF TypeOK, looked, failures
<1>1. CASE Reuse(i)  BY <1>1 DEF Reuse
<1>2. CASE Build(i)  BY <1>2 DEF Build
<1>3. CASE LookTree(i)  BY <1>3 DEF LookTree
<1>4. CASE LookLauncher(i)  BY <1>4 DEF LookLauncher
<1>5. CASE Fail(i)  BY <1>5 DEF Fail
<1>6. CASE RollbackFails(i)  BY <1>6 DEF RollbackFails
<1>7. CASE RollBackLauncher(i)  BY <1>7 DEF RollBackLauncher
<1>8. CASE RollBackTree(i)  BY <1>8 DEF RollBackTree
<1>9. CASE Finish(i)  BY <1>9 DEF Finish
<1>10. CASE Clean(i)  BY <1>10 DEF Clean
<1>11. CASE Kill(i)  BY <1>11 DEF Kill
<1> QED  BY <1>1, <1>2, <1>3, <1>4, <1>5, <1>6, <1>7, <1>8, <1>9, <1>10, <1>11 DEF Step

(* Only one run works, so that a step need only show what it is of.        *)
LEMMA UpgradeCombined ==
  ASSUME UpgradeInv, NEW i \in Installer, \A j \in Installer \ {i} : ~Working(j) /\ pc'[j] = pc[j],
         BackupsOld', LauncherFollows', Working(i)' => Fresh(i)',
         Reported' => /\ shared'["dest"] \in Installer
                      /\ Working(i)' => pc'[i] = "cleaning" /\ result'[i] = "installed"
  PROVE  UpgradeInv'
<1>1. \A j \in Installer \ {i} : ~Working(j)'
  BY DEF Working
<1> QED  BY <1>1 DEF UpgradeInv, Settled

LEMMA RenameUpgrades ==
  ASSUME Assumed, Orderly, CutoverInv, UpgradeInv, NEW i \in Installer, Rename(i)
  PROVE  UpgradeInv'
<1> USE NoInstaller
<1>1. \A j \in Installer \ {i} : ~Working(j)
  BY OneAtATime DEF Step
<1>2. /\ pc[i] \in {"move tree", "move launcher", "publish", "link", "displace launcher",
                   "restore launcher", "displace tree", "restore tree"}
      /\ Working(i)
  BY DEF Rename, Moves, Working, Ended
<1>3. TypeOK /\ Placed(i) /\ Seen(i) /\ Fresh(i)
  BY <1>2 DEF CutoverInv, UpgradeInv
<1>4. /\ UNCHANGED <<warp, result, before, rollbackFailed>>
      /\ \A j \in Installer \ {i} : stage'[j] = stage[j] /\ pc'[j] = pc[j]
      /\ pc'[i] = Successor(i)
  BY <1>3, Renamed
<1>5. ~Reported'
  BY <1>2, <1>4 DEF UpgradeInv, Settled, Reported
<1>6. BackupsOld'
  <2>1. {shared["dest"], shared["wrapper"]} \subseteq Content
    BY <1>3 DEF TypeOK, Shared
  <2>2. /\ pc[i] = "move tree" => shared["dest"] \in {Old, Nothing}
        /\ pc[i] = "move launcher" => shared["wrapper"] \in {Old, Nothing}
    BY <1>3, <2>1 DEF Placed, Fresh, KeptTree, KeptLauncher
  <2>3. /\ stage'[i]["backup"] \in {stage[i]["backup"], Nothing}
           \/ (pc[i] = "move tree" /\ stage'[i]["backup"] = shared["dest"])
        /\ stage'[i]["launcher backup"] \in {stage[i]["launcher backup"], Nothing}
           \/ (pc[i] = "move launcher" /\ stage'[i]["launcher backup"] = shared["wrapper"])
    BY <1>2, <1>3, Renamed
  <2> QED  BY <1>4, <2>2, <2>3 DEF BackupsOld, UpgradeInv
<1>7. LauncherFollows'
  <2>1. LauncherFollows
    BY DEF UpgradeInv
  <2>2. CASE pc[i] = "link"
    BY <1>3, <1>4, <2>2, Renamed DEF Placed, NewTree, LauncherFollows
  <2>3. CASE pc[i] # "link"
    <3>1. /\ shared'["wrapper"] \notin Installer
          /\ ~warp => /\ shared'["wrapper"] = Nothing
                      /\ stage'[i]["launcher backup"] = stage[i]["launcher backup"]
      BY <1>2, <1>3, <2>1, <2>3, Renamed
         DEF Placed, Fresh, KeptLauncher, MovedLauncher, NewLauncher, LauncherFollows
    <3> QED  BY <1>4, <2>1, <3>1 DEF LauncherFollows
  <2> QED  BY <2>2, <2>3
<1>8. Fresh(i)'
  <2>1. pc'[i] \notin {"look", "cleaning"} /\ {before[i]["dest"], before[i]["wrapper"]} \cap Installer = {}
    BY <1>2, <1>3, <1>4 DEF Fresh, Successor
  <2>2. ASSUME pc'[i] = "rolled back"
        PROVE  stage'[i]["backup"] = Nothing /\ stage'[i]["launcher backup"] = Nothing
    <3>1. \/ pc[i] = "restore tree"
          \/ pc[i] = "displace tree" /\ stage[i]["backup"] = Nothing
      BY <1>2, <1>4, <2>2 DEF Successor, Exists, Holds, Shared
    <3> QED  BY <1>3, <3>1, Renamed DEF Placed, KeptLauncher
  <2> QED  BY <1>4, <2>1, <2>2 DEF Fresh
<1> QED  BY <1>1, <1>4, <1>5, <1>6, <1>7, <1>8, UpgradeCombined

LEMMA OtherUpgrades ==
  ASSUME Assumed, Orderly, CutoverInv, UpgradeInv, NEW i \in Installer, Step(i), ~Rename(i)
  PROVE  UpgradeInv'
<1> USE NoInstaller
<1>1. \A j \in Installer \ {i} : ~Working(j)
  BY OneAtATime
<1>2. TypeOK /\ LauncherFollows /\ BackupsOld /\ Settled /\ (Working(i) => Placed(i) /\ Seen(i) /\ Fresh(i))
  BY DEF CutoverInv, UpgradeInv
<1>3. /\ UNCHANGED <<warp, shared>>
      /\ \A j \in Installer \ {i} : pc'[j] = pc[j] /\ stage'[j] = stage[j] /\ result'[j] = result[j]
      /\ stage'[i] = stage[i] \/ Build(i) \/ Clean(i)
  BY <1>2, PathsStay
<1>4. /\ stage'[i]["backup"] \in {stage[i]["backup"], Nothing}
      /\ stage'[i]["launcher backup"] \in {stage[i]["launcher backup"], Nothing}
  <2>1. CASE Build(i)  BY <1>2, <2>1 DEF Build, TypeOK, Empty, Private
  <2>2. CASE Clean(i)
    <3>1. \/ stage'[i] = [stage[i] EXCEPT !["staged"] = Nothing]
          \/ stage'[i] = Empty
      BY <1>2, <2>2 DEF Clean, TypeOK
    <3>2. stage[i] \in [Private -> Content]
      BY <1>2 DEF TypeOK
    <3>3. CASE stage'[i] = [stage[i] EXCEPT !["staged"] = Nothing]
      BY <3>2, <3>3 DEF Private
    <3>4. CASE stage'[i] = Empty
      BY <3>4 DEF Empty, Private
    <3> QED  BY <3>1, <3>3, <3>4
  <2> QED  BY <1>3, <2>1, <2>2
<1>5. BackupsOld' /\ LauncherFollows'
  BY <1>2, <1>3, <1>4 DEF BackupsOld, LauncherFollows
<1>6. ASSUME Working(i), pc[i] # "cleaning" PROVE ~Reported
  BY <1>2, <1>6 DEF Settled
<1>7. ASSUME UNCHANGED <<shared, result>>, ~(Reported /\ Working(i)'), Working(i)' => Fresh(i)'
      PROVE  UpgradeInv'
  BY <1>1, <1>2, <1>3, <1>5, <1>7, UpgradeCombined DEF Settled, Reported
<1>8. CASE Reuse(i)
  <2>1. ~Working(i)' /\ shared'["dest"] \in Installer
    BY <1>2, <1>8 DEF Reuse, Working, Ended, TypeOK
  <2> QED  BY <1>1, <1>3, <1>5, <2>1, UpgradeCombined
<1>9. CASE Build(i)
  <2>1. ~Reported /\ UNCHANGED <<shared, result>> /\ pc'[i] = "look" /\ shared["dest"] \notin Installer
    BY <1>2, <1>9 DEF Build, Settled, TypeOK
  <2> QED  BY <1>7, <2>1 DEF Fresh
<1>10. CASE LookTree(i)
  <2>1. /\ UNCHANGED <<shared, result>> /\ pc'[i] \in {"look launcher", "move tree", "publish"}
        /\ before'[i] = shared /\ pc[i] = "look" /\ Working(i)
    BY <1>2, <1>10 DEF LookTree, TypeOK, Working, Ended
  <2>2. {shared["dest"], shared["wrapper"]} \cap Installer = {}
    BY <1>2, <2>1 DEF Fresh, LauncherFollows
  <2> QED  BY <1>6, <1>7, <2>1, <2>2 DEF Fresh
<1>11. ASSUME UNCHANGED <<shared, result, before>>, Working(i), pc[i] \notin {"look", "cleaning"},
              pc'[i] # "look",
              pc'[i] \in {"rolled back", "cleaning"} /\ ~rollbackFailed'[i] =>
                stage'[i]["backup"] = Nothing /\ stage'[i]["launcher backup"] = Nothing
       PROVE  UpgradeInv'
  BY <1>2, <1>6, <1>7, <1>11 DEF Fresh
<1>12. CASE LookLauncher(i)
  BY <1>2, <1>11, <1>12 DEF LookLauncher, TypeOK, Working, Ended
<1>13. CASE Fail(i)
  BY <1>2, <1>11, <1>13 DEF Fail, TypeOK, Working, Ended, Replacing, looked
<1>14. CASE RollbackFails(i)
  BY <1>2, <1>11, <1>14 DEF RollbackFails, TypeOK, Working, Ended, RollingBack, looked, Orderly
<1>15. CASE RollBackLauncher(i)
  BY <1>2, <1>11, <1>15 DEF RollBackLauncher, TypeOK, Working, Ended, looked
<1>16. CASE RollBackTree(i)
  <2>1. pc[i] = "rollback tree" /\ UNCHANGED <<shared, result, before>> /\ Working(i)
    BY <1>16 DEF RollBackTree, Working, Ended, looked
  <2>2. stage[i]["launcher backup"] = Nothing
    BY <1>2, <2>1 DEF Placed, KeptLauncher
  <2>3. pc'[i] = "rolled back" => stage[i]["backup"] = Nothing
    BY <1>2, <1>16 DEF RollBackTree, TypeOK, Exists, Holds, Shared
  <2>4. pc'[i] \in {"rolled back", "displace tree", "restore tree"} /\ stage' = stage
    BY <1>2, <1>16 DEF RollBackTree, TypeOK
  <2> QED  BY <1>11, <2>1, <2>2, <2>3, <2>4
<1>17. CASE Finish(i)
  <2>1. /\ UNCHANGED <<stage, before, rollbackFailed>> /\ pc'[i] = "cleaning" /\ Working(i)
        /\ pc[i] \in {"replaced", "rolled back"}
        /\ result'[i] = IF pc[i] = "replaced" THEN "installed" ELSE "failed"
    BY <1>2, <1>17 DEF Finish, TypeOK, Working, Ended, looked, failures
  <2>2. ~Reported /\ result[i] = "none"
    BY <1>2, <1>6, <2>1 DEF Seen
  <2>3. Fresh(i)'
    BY <1>2, <2>1, <2>2 DEF Fresh
  <2>4. pc[i] = "replaced" => shared'["dest"] \in Installer
    BY <1>2, <1>3, <2>1 DEF Placed, Replaced, NewTree
  <2>5. pc[i] # "replaced" => ~Reported'
    BY <1>3, <2>1, <2>2 DEF Reported
  <2> QED  BY <1>1, <1>3, <1>5, <2>1, <2>3, <2>4, <2>5, UpgradeCombined
<1>18. CASE Clean(i) \/ Kill(i)
  <2>1. ~Working(i)' /\ UNCHANGED <<shared, result>>
    BY <1>2, <1>18 DEF Clean, Kill, Working, Ended, TypeOK
  <2> QED  BY <1>7, <2>1
<1> QED  BY <1>8, <1>9, <1>10, <1>12, <1>13, <1>14, <1>15, <1>16, <1>17, <1>18 DEF Step

LEMMA UpgradeStep == ASSUME Assumed PROVE Orderly /\ CutoverInv /\ UpgradeInv /\ [Next]_vars => UpgradeInv'
<1> SUFFICES ASSUME Orderly, CutoverInv, UpgradeInv, [Next]_vars PROVE UpgradeInv'
  OBVIOUS
<1>1. ASSUME NEW i \in Installer, Step(i) PROVE UpgradeInv'
  BY <1>1, RenameUpgrades, OtherUpgrades
<1>2. CASE UNCHANGED vars
  BY <1>2 DEF vars, UpgradeInv, BackupsOld, LauncherFollows, Fresh, Settled, Reported, Working
<1> QED  BY <1>1, <1>2 DEF Next

(* What the refinement rests on, in every state of an orderly run          *)
(* (install.py:593-653, 469-496).                                          *)
THEOREM UpgradeSafe == ASSUME Assumed PROVE Spec /\ Orderly => [](Orderly /\ CutoverInv /\ UpgradeInv)
<1> QED  BY CutoverSafe, StaysOrderly, UpgradeInit, UpgradeStep, PTL DEF Spec

(* The refinement mapping, path by path, before a step and after it.       *)
LEMMA Mapping ==
  /\ Current["dest"] = IF shared["dest"] = Nothing /\ BackedUp("dest") THEN Old ELSE shared["dest"]
  /\ Current["wrapper"] = IF shared["wrapper"] = Nothing /\ BackedUp("wrapper") THEN Old ELSE shared["wrapper"]
  /\ Saved["dest"] = IF shared["dest"] \in Installer /\ BackedUp("dest") THEN Old ELSE Nothing
  /\ Saved["wrapper"] = IF shared["wrapper"] \in Installer /\ BackedUp("wrapper") THEN Old ELSE Nothing
  /\ BackedUp("dest") <=> \E i \in Installer : stage[i]["backup"] # Nothing
  /\ BackedUp("wrapper") <=> \E i \in Installer : stage[i]["launcher backup"] # Nothing
<1>1. BackupOf["dest"] = "backup" /\ BackupOf["wrapper"] = "launcher backup"
  BY DEF BackupOf
<1>2. /\ BackedUp("dest") <=> \E i \in Installer : stage[i]["backup"] # Nothing
      /\ BackedUp("wrapper") <=> \E i \in Installer : stage[i]["launcher backup"] # Nothing
  BY <1>1 DEF BackedUp, Exists, Holds, Shared
<1> QED  BY <1>2 DEF Current, Saved, Shared

LEMMA MappingAfter ==
  /\ Current'["dest"] = IF shared'["dest"] = Nothing /\ BackedUp("dest")' THEN Old ELSE shared'["dest"]
  /\ Current'["wrapper"] = IF shared'["wrapper"] = Nothing /\ BackedUp("wrapper")' THEN Old ELSE shared'["wrapper"]
  /\ Saved'["dest"] = IF shared'["dest"] \in Installer /\ BackedUp("dest")' THEN Old ELSE Nothing
  /\ Saved'["wrapper"] = IF shared'["wrapper"] \in Installer /\ BackedUp("wrapper")' THEN Old ELSE Nothing
  /\ BackedUp("dest")' <=> \E i \in Installer : stage'[i]["backup"] # Nothing
  /\ BackedUp("wrapper")' <=> \E i \in Installer : stage'[i]["launcher backup"] # Nothing
<1>1. BackupOf["dest"] = "backup" /\ BackupOf["wrapper"] = "launcher backup"
  BY DEF BackupOf
<1>2. /\ BackedUp("dest")' <=> \E i \in Installer : stage'[i]["backup"] # Nothing
      /\ BackedUp("wrapper")' <=> \E i \in Installer : stage'[i]["launcher backup"] # Nothing
  BY <1>1 DEF BackedUp, Exists, Holds, Shared
<1> QED  BY <1>2 DEF Current, Saved, Shared

LEMMA ByPath ==
  /\ Upgrade!Path = Shared /\ Shared = {"dest", "wrapper"}
  /\ DOMAIN Current = Shared /\ DOMAIN Saved = Shared
  /\ Current = [p \in Shared |-> Current[p]] /\ Saved = [p \in Shared |-> Saved[p]]
  /\ Current' = [p \in Shared |-> Current'[p]] /\ Saved' = [p \in Shared |-> Saved'[p]]
BY DEF Current, Saved, Shared, Upgrade!Path

LEMMA UpgradeStarts == Init => Upgrade!Init
<1> SUFFICES ASSUME Init PROVE Upgrade!Init
  OBVIOUS
<1>1. ~BackedUp("dest") /\ ~BackedUp("wrapper") /\ ~Reported
  BY Mapping DEF Init, Empty, Private, Reported
<1>2. \A p \in Shared : Current[p] \in {Old, Nothing} /\ Saved[p] = Nothing
  BY <1>1, Mapping, ByPath, NoInstaller DEF Init
<1>3. Current \in [Upgrade!Path -> {Old, Nothing}] /\ Saved = [p \in Upgrade!Path |-> Nothing]
  BY <1>2, ByPath
<1> QED  BY <1>1, <1>3 DEF Upgrade!Init

(* What a step leaves of a path counts by what is there of it before and   *)
(* after.                                                                  *)
LEMMA PathChanges ==
  ASSUME NEW i \in Installer, \A j \in Installer \ {i} : stage'[j] = stage[j]
  PROVE  /\ UNCHANGED <<shared["dest"], stage[i]["backup"]>> =>
              UNCHANGED <<Current["dest"], Saved["dest"], BackedUp("dest")>>
         /\ UNCHANGED <<shared["wrapper"], stage[i]["launcher backup"]>> =>
              UNCHANGED <<Current["wrapper"], Saved["wrapper"], BackedUp("wrapper")>>
         /\ UNCHANGED stage[i]["backup"] => UNCHANGED BackedUp("dest")
         /\ UNCHANGED stage[i]["launcher backup"] => UNCHANGED BackedUp("wrapper")
<1>1. UNCHANGED stage[i]["backup"] => UNCHANGED BackedUp("dest")
  <2> SUFFICES ASSUME UNCHANGED stage[i]["backup"] PROVE BackedUp("dest")' <=> BackedUp("dest")
    BY DEF BackedUp
  <2> QED  BY Mapping, MappingAfter
<1>2. UNCHANGED stage[i]["launcher backup"] => UNCHANGED BackedUp("wrapper")
  <2> SUFFICES ASSUME UNCHANGED stage[i]["launcher backup"] PROVE BackedUp("wrapper")' <=> BackedUp("wrapper")
    BY DEF BackedUp
  <2> QED  BY Mapping, MappingAfter
<1> QED  BY <1>1, <1>2, Mapping, MappingAfter

(* A rename replaces a path, puts it back, or only moves what there is.    *)
LEMMA RenameRefines ==
  ASSUME Assumed, Orderly, CutoverInv, UpgradeInv, NEW i \in Installer, Rename(i)
  PROVE  [Upgrade!Next]_(Upgrade!vars)
<1> USE NoInstaller
<1>1. /\ pc[i] \in {"move tree", "move launcher", "publish", "link", "displace launcher",
                   "restore launcher", "displace tree", "restore tree"}
      /\ Working(i)
  BY DEF Rename, Moves, Working, Ended
<1>2. TypeOK /\ Placed(i) /\ Fresh(i) /\ ~Reported /\ BackupsOld
  BY <1>1 DEF CutoverInv, UpgradeInv, Settled
<1>3. /\ UNCHANGED Reported
      /\ \A j \in Installer \ {i} : stage'[j] = stage[j]
  BY <1>2, Renamed DEF Reported
<1>4. shared["dest"] \in Content /\ shared["wrapper"] \in Content
  BY <1>2 DEF TypeOK, Shared
<1>5. {stage[i]["backup"], stage[i]["launcher backup"]} \subseteq {Old, Nothing}
  BY <1>2 DEF BackupsOld
<1>6. pc[i] \in {"move launcher", "link", "displace launcher", "restore launcher"} =>
        UNCHANGED <<Current["dest"], Saved["dest"]>>
  BY <1>2, <1>3, Renamed, PathChanges
<1>7. pc[i] \in {"move tree", "publish", "displace tree", "restore tree"} =>
        UNCHANGED <<Current["wrapper"], Saved["wrapper"]>>
  BY <1>2, <1>3, Renamed, PathChanges
<1>8. ASSUME UNCHANGED <<Current["dest"], Saved["dest"], Current["wrapper"], Saved["wrapper"]>>
      PROVE  UNCHANGED Upgrade!vars
  BY <1>3, <1>8, ByPath DEF Upgrade!vars
<1>9. CASE pc[i] = "move tree"
  <2>1. /\ shared["dest"] = Old /\ shared'["dest"] = Nothing /\ stage'[i]["backup"] = Old
    BY <1>2, <1>4, <1>9, Renamed DEF Placed, KeptTree, Fresh
  <2>2. UNCHANGED <<Current["dest"], Saved["dest"]>>
    BY <2>1, Mapping, MappingAfter
  <2> QED  BY <1>7, <1>8, <1>9, <2>2
<1>10. CASE pc[i] = "move launcher"
  <2>1. /\ shared["wrapper"] = Old /\ shared'["wrapper"] = Nothing /\ stage'[i]["launcher backup"] = Old
    BY <1>2, <1>4, <1>10, Renamed DEF Placed, KeptLauncher, Fresh
  <2>2. UNCHANGED <<Current["wrapper"], Saved["wrapper"]>>
    BY <2>1, Mapping, MappingAfter
  <2> QED  BY <1>6, <1>8, <1>10, <2>2
<1>11. CASE pc[i] = "publish"
  <2>1. shared["dest"] = Nothing /\ shared'["dest"] = i /\ UNCHANGED stage[i]["backup"]
    BY <1>2, <1>11, Renamed DEF Placed, Built
  <2>2. UNCHANGED BackedUp("dest")
    BY <1>3, <2>1, PathChanges
  <2>3. Current["dest"] \notin Installer /\ Current'["dest"] = i /\ Saved'["dest"] = Current["dest"]
    BY <2>1, <2>2, Mapping, MappingAfter
  <2>4. UNCHANGED <<Current["wrapper"], Saved["wrapper"]>>
    BY <1>7, <1>11
  <2>5. /\ Current' = [Current EXCEPT !["dest"] = i]
        /\ Saved' = [Saved EXCEPT !["dest"] = Current["dest"]]
    BY <2>3, <2>4, ByPath
  <2>6. Upgrade!ReplaceTree(i)
    BY <1>2, <1>3, <2>3, <2>5 DEF Upgrade!ReplaceTree, Upgrade!Replace
  <2> QED  BY <2>6 DEF Upgrade!Next
<1>12. CASE pc[i] = "link"
  <2>1. /\ shared["wrapper"] = Nothing /\ shared'["wrapper"] = i /\ UNCHANGED stage[i]["launcher backup"]
        /\ shared["dest"] = i
    BY <1>2, <1>12, Renamed DEF Placed, MovedLauncher, NewTree
  <2>2. UNCHANGED BackedUp("wrapper")
    BY <1>3, <2>1, PathChanges
  <2>3. /\ Current["wrapper"] \notin Installer /\ Current'["wrapper"] = i
        /\ Saved'["wrapper"] = Current["wrapper"] /\ Current["dest"] = i
    BY <2>1, <2>2, Mapping, MappingAfter
  <2>4. UNCHANGED <<Current["dest"], Saved["dest"]>>
    BY <1>6, <1>12
  <2>5. /\ Current' = [Current EXCEPT !["wrapper"] = i]
        /\ Saved' = [Saved EXCEPT !["wrapper"] = Current["wrapper"]]
    BY <2>3, <2>4, ByPath
  <2>6. Upgrade!ReplaceLauncher(i)
    BY <1>2, <1>3, <2>3, <2>5 DEF Upgrade!ReplaceLauncher, Upgrade!Replace
  <2> QED  BY <2>6 DEF Upgrade!Next
<1>13. CASE pc[i] = "displace launcher"
  <2>1. shared["wrapper"] = i /\ shared'["wrapper"] = Nothing /\ UNCHANGED stage[i]["launcher backup"]
    BY <1>2, <1>13, Renamed DEF Placed, NewLauncher
  <2>2. UNCHANGED BackedUp("wrapper")
    BY <1>3, <2>1, PathChanges
  <2>3. Current["wrapper"] = i /\ Current'["wrapper"] = Saved["wrapper"] /\ Saved'["wrapper"] = Nothing
    BY <2>1, <2>2, Mapping, MappingAfter
  <2>4. Upgrade!PutBackLauncher
    BY <1>2, <1>3, <1>6, <1>13, <2>3, ByPath DEF Upgrade!PutBackLauncher, Upgrade!PutBack
  <2> QED  BY <2>4 DEF Upgrade!Next
<1>14. CASE pc[i] = "restore launcher"
  <2>1. /\ shared["wrapper"] = Nothing /\ stage[i]["launcher backup"] = Old
        /\ shared'["wrapper"] = Old
    BY <1>2, <1>5, <1>14, Renamed DEF Placed, MovedLauncher
  <2>2. UNCHANGED <<Current["wrapper"], Saved["wrapper"]>>
    BY <2>1, Mapping, MappingAfter
  <2> QED  BY <1>6, <1>8, <1>14, <2>2
<1>15. CASE pc[i] = "displace tree"
  <2>1. /\ shared["dest"] = i /\ shared'["dest"] = Nothing /\ UNCHANGED stage[i]["backup"]
        /\ shared["wrapper"] \notin Installer
    BY <1>2, <1>15, Renamed DEF Placed, NewTree, KeptLauncher, Fresh
  <2>2. UNCHANGED BackedUp("dest")
    BY <1>3, <2>1, PathChanges
  <2>3. /\ Current["dest"] = i /\ Current'["dest"] = Saved["dest"] /\ Saved'["dest"] = Nothing
        /\ Current["wrapper"] \notin Installer
    BY <2>1, <2>2, Mapping, MappingAfter
  <2>4. Upgrade!PutBackTree
    BY <1>2, <1>3, <1>7, <1>15, <2>3, ByPath DEF Upgrade!PutBackTree, Upgrade!PutBack
  <2> QED  BY <2>4 DEF Upgrade!Next
<1>16. CASE pc[i] = "restore tree"
  <2>1. shared["dest"] = Nothing /\ stage[i]["backup"] = Old /\ shared'["dest"] = Old
    BY <1>2, <1>5, <1>16, Renamed
  <2>2. UNCHANGED <<Current["dest"], Saved["dest"]>>
    BY <2>1, Mapping, MappingAfter
  <2> QED  BY <1>7, <1>8, <1>16, <2>2
<1> QED  BY <1>1, <1>9, <1>10, <1>11, <1>12, <1>13, <1>14, <1>15, <1>16

(* The other steps report, give a backup up, or change nothing of this.    *)
LEMMA OtherRefines ==
  ASSUME Assumed, Orderly, CutoverInv, UpgradeInv, NEW i \in Installer, Step(i), ~Rename(i)
  PROVE  [Upgrade!Next]_(Upgrade!vars)
<1> USE NoInstaller
<1>1. TypeOK /\ LauncherFollows /\ Settled /\ Idle(i) /\ (Working(i) => Placed(i) /\ Seen(i) /\ Fresh(i))
  BY DEF CutoverInv, UpgradeInv
<1>2. /\ UNCHANGED <<warp, shared>>
      /\ \A j \in Installer \ {i} : stage'[j] = stage[j] /\ result'[j] = result[j]
      /\ stage'[i] = stage[i] \/ Build(i) \/ Clean(i)
  BY <1>1, PathsStay
<1>3. ASSUME UNCHANGED <<stage[i]["backup"], stage[i]["launcher backup"]>>
      PROVE  UNCHANGED <<Current, Saved>>
  BY <1>2, <1>3, PathChanges, ByPath
<1>4. ASSUME UNCHANGED result PROVE UNCHANGED Reported
  BY <1>4 DEF Reported
<1>5. CASE Reuse(i)
  <2>1. UNCHANGED <<Current, Saved>> /\ Reported' /\ shared["dest"] \in Installer
    BY <1>1, <1>3, <1>5 DEF Reuse, Reported, TypeOK
  <2>2. Upgrade!Find
    BY <2>1, Mapping DEF Upgrade!Find
  <2> QED  BY <2>2 DEF Upgrade!Next
<1>6. CASE Build(i)
  <2>1. UNCHANGED <<stage[i]["backup"], stage[i]["launcher backup"]>> /\ UNCHANGED result
    BY <1>1, <1>6 DEF Build, MayBegin, Idle, TypeOK, Empty, Private
  <2> QED  BY <1>3, <1>4, <2>1 DEF Upgrade!vars
<1>7. CASE Finish(i)
  <2>1. /\ UNCHANGED stage /\ Working(i) /\ pc[i] \in {"replaced", "rolled back"}
        /\ result'[i] = IF pc[i] = "replaced" THEN "installed" ELSE "failed"
    BY <1>1, <1>7 DEF Finish, Working, Ended, TypeOK
  <2>2. UNCHANGED <<Current, Saved>>
    BY <1>3, <2>1
  <2>3. CASE pc[i] = "rolled back"
    <3>1. UNCHANGED Reported
      <4>1. ~Reported
        BY <1>1, <2>1, <2>3 DEF Settled
      <4>2. ~Reported'
        BY <1>2, <2>1, <2>3, <4>1 DEF Reported
      <4> QED  BY <4>1, <4>2 DEF Reported
    <3> QED  BY <2>2, <3>1 DEF Upgrade!vars
  <2>4. CASE pc[i] = "replaced"
    <3>1. Reported'
      BY <2>1, <2>4 DEF Reported
    <3>2. shared["dest"] = i /\ (warp => shared["wrapper"] = i)
      BY <1>1, <2>1, <2>4 DEF Placed, Replaced, NewTree, NewLauncher
    <3>3. warp \/ (shared["wrapper"] = Nothing /\ ~BackedUp("wrapper"))
      BY <1>1, Mapping DEF LauncherFollows
    <3>4. Current["dest"] = i /\ Current["wrapper"] \in {i, Nothing}
      BY <3>2, <3>3, Mapping
    <3>5. Upgrade!Report(i)
      BY <2>2, <3>1, <3>4 DEF Upgrade!Report
    <3> QED  BY <3>5 DEF Upgrade!Next
  <2> QED  BY <2>1, <2>3, <2>4
<1>8. CASE Clean(i)
  <2>1. UNCHANGED Reported /\ Working(i) /\ pc[i] = "cleaning"
    BY <1>4, <1>8 DEF Clean, Working, Ended
  <2>2. stage'[i] = IF rollbackFailed[i] THEN [stage[i] EXCEPT !["staged"] = Nothing] ELSE Empty
    BY <1>1, <1>8 DEF Clean, TypeOK
  <2>3. CASE rollbackFailed[i] \/ result[i] # "installed"
    <3>1. UNCHANGED <<stage[i]["backup"], stage[i]["launcher backup"]>>
      <4>1. stage[i] \in [Private -> Content]
        BY <1>1 DEF TypeOK
      <4>2. CASE rollbackFailed[i]
        BY <2>2, <4>1, <4>2 DEF Private
      <4>3. CASE ~rollbackFailed[i]
        BY <1>1, <2>1, <2>2, <2>3, <4>3 DEF Fresh, Empty, Private
      <4> QED  BY <4>2, <4>3
    <3> QED  BY <1>3, <2>1, <3>1 DEF Upgrade!vars
  <2>4. CASE ~rollbackFailed[i] /\ result[i] = "installed"
    <3>1. Reported
      BY <2>4 DEF Reported
    <3>2. shared["dest"] = i /\ (warp => shared["wrapper"] = i)
      BY <1>1, <2>1, <2>4 DEF Placed, Replaced, NewTree, NewLauncher
    <3>3. /\ BackedUp("dest")' => BackedUp("dest")
          /\ BackedUp("wrapper")' => BackedUp("wrapper")
      <4>1. stage'[i]["backup"] = Nothing /\ stage'[i]["launcher backup"] = Nothing
        BY <2>2, <2>4 DEF Empty, Private
      <4> QED  BY <1>2, <4>1, Mapping, MappingAfter
    <3>4. warp \/ (shared["wrapper"] = Nothing /\ ~BackedUp("wrapper"))
      BY <1>1, Mapping DEF LauncherFollows
    <3>5. /\ UNCHANGED <<Current["dest"], Current["wrapper"]>>
          /\ \A p \in Shared : Saved'[p] \in {Saved[p], Nothing} /\ Saved'[p] \in {Old, Nothing}
      BY <1>2, <3>2, <3>3, <3>4, Mapping, MappingAfter, ByPath
    <3>6. UNCHANGED Current /\ Saved' \in [Shared -> {Old, Nothing}]
      BY <3>5, ByPath
    <3>7. Upgrade!GiveUp
      BY <2>1, <3>1, <3>5, <3>6, ByPath DEF Upgrade!GiveUp
    <3> QED  BY <3>7 DEF Upgrade!Next
  <2> QED  BY <2>3, <2>4
<1>9. CASE LookTree(i) \/ LookLauncher(i) \/ Fail(i) \/ RollbackFails(i) \/ RollBackLauncher(i)
           \/ RollBackTree(i) \/ Kill(i)
  <2>1. UNCHANGED <<stage, result>>
    BY <1>9 DEF LookTree, LookLauncher, Fail, RollbackFails, RollBackLauncher, RollBackTree, Kill
  <2> QED  BY <1>3, <1>4, <2>1 DEF Upgrade!vars
<1> QED  BY <1>5, <1>6, <1>7, <1>8, <1>9 DEF Step

(* The cutovers of install_warp and install_dwarfstar implement            *)
(* Installation, for any number of runs, wherever they fail or are killed, *)
(* if they do not overlap and are orderly (install.py:593-653, 469-496).   *)
THEOREM CutoverImplements == ASSUME Assumed PROVE Spec /\ Orderly => ImplementsInstallation
<1>1. ASSUME Orderly, CutoverInv, UpgradeInv, [Next]_vars PROVE [Upgrade!Next]_(Upgrade!vars)
  <2>1. ASSUME NEW i \in Installer, Step(i) PROVE [Upgrade!Next]_(Upgrade!vars)
    BY <1>1, <2>1, RenameRefines, OtherRefines
  <2>2. CASE UNCHANGED vars
    BY <2>2 DEF vars, Upgrade!vars, Current, Saved, BackedUp, Exists, Holds, Reported
  <2> QED  BY <1>1, <2>1, <2>2 DEF Next
<1>2. Upgrade!Init /\ [][Upgrade!Next]_(Upgrade!vars) => Upgrade!Spec
  BY DEF Upgrade!Spec
<1> QED  BY UpgradeSafe, UpgradeStarts, <1>1, <1>2, PTL DEF Spec, ImplementsInstallation

-------------------------------------------------------------------------------
(***************************************************************************)
(* The other runtime installer, install_llamacpp (LlamaInstall): what an   *)
(* install that ends well reports is what a gateway starts.                *)
(***************************************************************************)
(* Where a run works in the tree of a release, and where in the build's.   *)
InTree == {"wipe", "unpack", "flatten", "flat", "prune"}
InBuild == {"build", "copy", "finish"}
LlamaPositions == {"idle", "unlink", "launcher"} \cup InTree \cup InBuild

LlamaTyped ==
  /\ doing \in [Command -> LlamaPositions]
  /\ tag \in [Command -> Tag \cup {Local}]
  /\ tree \in [Tag \cup {Local} -> {"absent", "empty", "bare", "raw", "whole"}]
  /\ latest \in Tag \cup {Local, None}
  /\ stuck \subseteq Tag
  /\ renewed => mac
  /\ \A i \in Command : /\ doing[i] \in InTree => tag[i] \in Tag
                        /\ doing[i] \in InBuild \cup {"idle"} => tag[i] = Local

(* No two runs are at work; where two were, one that ends is held not to   *)
(* have ended well.                                                        *)
LlamaAlone ==
  /\ ~overlap => \A i, j \in Command : Busy(i) /\ Busy(j) => i = j
  /\ overlap /\ (\A i \in Command : ~Busy(i)) => dirty

(* How far a run that is alone has come with its tree.                     *)
OwnTree(i) ==
  /\ doing[i] = "unpack" => tree[tag[i]] \in {"empty", "bare"}
  /\ doing[i] = "flatten" => tree[tag[i]] \in {"empty", "raw", "whole"}
  /\ doing[i] = "flat" => tree[tag[i]] = "bare"
  /\ doing[i] \in {"unlink", "launcher"} => tree[tag[i]] \in {"raw", "whole"}
  /\ doing[i] \in {"prune", "finish"} => tree[tag[i]] = "whole"
  /\ doing[i] = "prune" => mac \/ launcher = tag[i]

OwnKept == ~overlap => \A i \in Command : OwnTree(i)

(* Between runs the last release is whole and is the only one, so that a   *)
(* gateway finds no other; the next run starts from any of this.           *)
LatestUsed ==
  Quiet =>
    /\ stuck = {} /\ latest \in Tag =>
         /\ tree[latest] = "whole" /\ (mac \/ launcher = latest)
         /\ \A t \in Tag \ {latest} : tree[t] = "absent"
    /\ latest = Local => tree[Local] = "whole"

(* While a run works, up to its removing the others, the last release is   *)
(* whole unless it is its own, and no third shows a llama-server.          *)
LatestKept ==
  LastKnown /\ (\A i \in Command : doing[i] # "prune") =>
    /\ (\A i \in Command : tag[i] # latest) => tree[latest] = "whole"
    /\ \A t \in Tag \ {latest} : HasServer(t) => \E i \in Command : tag[i] = t

LlamaInv == LlamaTyped /\ LlamaAlone /\ OwnKept /\ LatestUsed /\ LatestKept

LlamaActs(i) ==
  \/ Begin(i) \/ Wipe(i) \/ Unpack(i) \/ FallBack(i)
  \/ Flatten(i) \/ SourceBuild(i) \/ Unlink(i) \/ WriteLauncher(i)
  \/ (\E t \in Tag : Prune(i, t)) \/ Conclude(i) \/ BreakOff(i)

(* The invariant holds at first, whatever was installed.                   *)
LEMMA LlamaAtFirst == LlamaInit => LlamaInv
<1> SUFFICES ASSUME LlamaInit PROVE LlamaInv
  OBVIOUS
<1> USE DEF LlamaInit
<1>1. ASSUME NEW t \in Tag, HasServer(t) PROVE {u \in Tag : HasServer(u)} = {t} /\ Max({t}) = t
  <2>1. t >= t
    BY Numbers
  <2> QED BY <1>1, <2>1 DEF Max
<1>2. /\ latest \in Tag \cup {Local, None} /\ launcher = latest
      /\ latest \in Tag => tree[latest] = "whole" /\ \A t \in Tag \ {latest} : tree[t] = "absent"
      /\ latest = Local => tree[Local] = "whole"
  <2>1. CASE \E t \in Tag : HasServer(t)
    <3>1. PICK t \in Tag : HasServer(t)
      BY <2>1
    <3>2. launcher = t
      BY <1>1, <3>1
    <3> QED BY <3>1, <3>2, Numbers DEF HasServer, Local
  <2>2. CASE ~\E t \in Tag : HasServer(t)
    BY <2>2, Distinct DEF HasServer, Local
  <2> QED BY <2>1, <2>2
<1>3. LlamaTyped
  BY <1>2, Numbers, Distinct DEF Local, LlamaTyped, LlamaPositions, InTree, InBuild
<1>4. LlamaAlone /\ OwnKept
  BY DEF LlamaAlone, OwnKept, OwnTree, Busy
<1>5. LatestUsed
  BY <1>2 DEF LatestUsed
<1>6. LatestKept
  BY <1>2 DEF LatestKept, LastKnown, HasServer
<1> QED BY <1>3, <1>4, <1>5, <1>6 DEF LlamaInv

(* A run stays in the tree of its release until it falls back to a build.  *)
LEMMA LlamaTypedStep == ASSUME LlamaTyped, [LlamaNext]_llamaVars PROVE LlamaTyped'
<1> USE DEF LlamaTyped
<1>1. ASSUME NEW i \in Command, LlamaActs(i) PROVE LlamaTyped'
  <2> USE DEF LlamaPositions, InTree, InBuild, Goto, Set, Advance, aux,
         gateway, disk, End, Busy, Unpacked
  <2>1. CASE Begin(i) BY <2>1, Numbers, Distinct DEF Local, Begin
  <2>2. CASE Wipe(i) BY <2>2 DEF Wipe
  <2>3. CASE Unpack(i) BY <2>3 DEF Unpack
  <2>4. CASE FallBack(i) BY <2>4 DEF FallBack
  <2>5. CASE Flatten(i) BY <2>5 DEF Flatten
  <2>6. CASE SourceBuild(i) BY <2>6 DEF SourceBuild
  <2>7. CASE Unlink(i) BY <2>7 DEF Unlink
  <2>8. CASE WriteLauncher(i) BY <2>8 DEF WriteLauncher
  <2>9. CASE \E t \in Tag : Prune(i, t) BY <2>9 DEF Prune
  <2>10. CASE Conclude(i) BY <2>10 DEF Conclude
  <2>11. CASE BreakOff(i) BY <2>11 DEF BreakOff
  <2> QED BY <1>1, <2>1, <2>2, <2>3, <2>4, <2>5, <2>6, <2>7, <2>8, <2>9, <2>10,
         <2>11 DEF LlamaActs
<1> QED BY <1>1 DEF LlamaNext, LlamaActs, Resolve, Renew, Launch, StartFails, disk, gateway, aux,
       llamaVars

(* What a step does to the others.                                         *)
LEMMA LlamaElsewhere ==
  ASSUME LlamaTyped, NEW i \in Command, LlamaActs(i)
  PROVE  /\ \A j \in Command \ {i} : doing'[j] = doing[j] /\ tag'[j] = tag[j]
         /\ UNCHANGED <<mac, gateway>>
<1> USE DEF LlamaTyped, Goto, Set, Advance, aux, gateway, disk, End
<1>1. CASE Begin(i) BY <1>1 DEF Begin
<1>2. CASE Wipe(i) BY <1>2 DEF Wipe
<1>3. CASE Unpack(i) BY <1>3 DEF Unpack
<1>4. CASE FallBack(i) BY <1>4 DEF FallBack
<1>5. CASE Flatten(i) BY <1>5 DEF Flatten
<1>6. CASE SourceBuild(i) BY <1>6 DEF SourceBuild
<1>7. CASE Unlink(i) BY <1>7 DEF Unlink
<1>8. CASE WriteLauncher(i) BY <1>8 DEF WriteLauncher
<1>9. CASE \E t \in Tag : Prune(i, t) BY <1>9 DEF Prune
<1>10. CASE Conclude(i) BY <1>10 DEF Conclude
<1>11. CASE BreakOff(i) BY <1>11 DEF BreakOff
<1> QED BY <1>1, <1>2, <1>3, <1>4, <1>5, <1>6, <1>7, <1>8, <1>9, <1>10, <1>11 DEF LlamaActs

(* Only a run that finds no other at work goes without one.                *)
LEMMA LlamaAloneStep == ASSUME LlamaInv, [LlamaNext]_llamaVars PROVE LlamaAlone'
<1> USE DEF LlamaInv
<1>1. ASSUME NEW i \in Command, LlamaActs(i) PROVE LlamaAlone'
  <2>1. CASE Begin(i)
    BY <1>1, <2>1, LlamaElsewhere DEF Begin, LlamaAlone, Busy
  <2>2. CASE ~Begin(i)
    <3>1. overlap' = overlap /\ Busy(i)
      BY <1>1, <2>2 DEF LlamaActs, Wipe, Unpack, FallBack, Flatten,
             SourceBuild, Unlink, WriteLauncher,
         Prune, Conclude, BreakOff, Advance, aux, Busy
    <3>2. Busy(i)' \/ (overlap => dirty')
      <4>1. CASE Conclude(i) BY <4>1 DEF Conclude
      <4>2. CASE BreakOff(i) BY <4>2 DEF BreakOff
      <4>3. CASE ~Conclude(i) /\ ~BreakOff(i)
        BY <1>1, <2>2, <4>3 DEF LlamaActs, Wipe, Unpack, FallBack, Flatten, SourceBuild, Unlink,
           WriteLauncher, Prune, Advance, Goto, Busy, LlamaTyped
      <4> QED BY <4>1, <4>2, <4>3
    <3> QED BY <1>1, <3>1, <3>2, LlamaElsewhere DEF LlamaAlone, Busy
  <2> QED BY <2>1, <2>2
<1>2. ASSUME UNCHANGED <<doing, overlap, dirty>> PROVE LlamaAlone'
  BY <1>2 DEF LlamaAlone, Busy
<1> QED BY <1>1, <1>2 DEF LlamaNext, LlamaActs, Resolve, Renew, Launch, StartFails, gateway, aux,
       llamaVars

(* A run that is alone finds what it left, and nothing else changes.       *)
LEMMA OwnTreeStep == ASSUME LlamaInv, [LlamaNext]_llamaVars PROVE OwnKept'
<1> USE DEF LlamaInv
<1>1. ASSUME NEW i \in Command, LlamaActs(i), ~overlap' PROVE OwnTree(i)'
  <2> USE DEF LlamaTyped, OwnTree, Goto, Set, Advance, aux, gateway, disk,
         End, Busy, Unpacked, HasServer, InTree, InBuild, LlamaPositions
  <2>1. CASE Begin(i) BY <2>1 DEF Begin
  <2>2. CASE ~Begin(i)
    <3>1. OwnTree(i) /\ ~overlap
      BY <1>1, <2>2 DEF LlamaActs, Wipe, Unpack, FallBack, Flatten,
             SourceBuild, Unlink, WriteLauncher,
         Prune, Conclude, BreakOff, OwnKept
    <3>2. CASE Wipe(i) BY <3>1, <3>2 DEF Wipe
    <3>3. CASE Unpack(i) BY <3>1, <3>3 DEF Unpack
    <3>4. CASE FallBack(i) BY <3>1, <3>4 DEF FallBack
    <3>5. CASE Flatten(i) BY <3>1, <3>5 DEF Flatten
    <3>6. CASE SourceBuild(i) BY <3>1, <3>6, Numbers, Distinct DEF Local, SourceBuild
    <3>7. CASE Unlink(i) BY <3>1, <3>7 DEF Unlink
    <3>8. CASE WriteLauncher(i) BY <3>1, <3>8 DEF WriteLauncher
    <3>9. CASE \E t \in Tag : Prune(i, t) BY <3>1, <3>9 DEF Prune, Older
    <3>10. CASE Conclude(i) BY <3>1, <3>10 DEF Conclude
    <3>11. CASE BreakOff(i) BY <3>1, <3>11 DEF BreakOff
    <3> QED BY <1>1, <2>2, <3>2, <3>3, <3>4, <3>5, <3>6, <3>7, <3>8, <3>9, <3>10,
           <3>11 DEF LlamaActs
  <2> QED BY <2>1, <2>2
<1>2. ASSUME NEW i \in Command, LlamaActs(i) PROVE OwnKept'
  <2> SUFFICES ASSUME ~overlap', NEW j \in Command \ {i} PROVE OwnTree(j)'
    BY <1>1, <1>2 DEF OwnKept
  <2>1. ~Busy(j)
    <3>1. CASE Begin(i) BY <3>1 DEF Begin
    <3>2. CASE ~Begin(i)
      BY <1>2, <3>2 DEF LlamaActs, Wipe, Unpack, FallBack, Flatten,
             SourceBuild, Unlink, WriteLauncher,
         Prune, Conclude, BreakOff, Advance, aux, Busy, LlamaAlone
    <3> QED BY <3>1, <3>2
  <2> QED BY <1>2, <2>1, LlamaElsewhere DEF OwnTree, Busy
<1>3. ASSUME Resolve \/ Renew \/ Launch \/ StartFails \/ UNCHANGED llamaVars PROVE OwnKept'
  <2>1. UNCHANGED <<doing, tag, tree, mac, overlap>> /\ (launcher' = launcher \/ mac)
    BY <1>3 DEF LlamaTyped, Resolve, Renew, Launch, StartFails, disk, aux, gateway, llamaVars
  <2> QED BY <2>1 DEF OwnKept, OwnTree
<1> QED BY <1>2, <1>3 DEF LlamaNext, LlamaActs

(* Only a run that ends well makes it quiet, and it was alone.             *)
LEMMA LatestUsedStep == ASSUME LlamaInv, [LlamaNext]_llamaVars PROVE LatestUsed'
<1> USE DEF LlamaInv
<1>1. ASSUME NEW i \in Command, LlamaActs(i), Quiet' PROVE Conclude(i)
  <2>1. CASE Conclude(i) BY <2>1
  <2>2. CASE BreakOff(i) BY <1>1, <2>2 DEF BreakOff, Quiet
  <2>3. CASE ~Conclude(i) /\ ~BreakOff(i)
    <3>1. Busy(i)'
      BY <1>1, <2>3 DEF LlamaActs, Begin, Wipe, Unpack, FallBack,
             Flatten, SourceBuild, Unlink, WriteLauncher,
         Prune, Advance, Goto, Busy, LlamaTyped
    <3> QED BY <1>1, <3>1 DEF Quiet
  <2> QED BY <2>1, <2>2, <2>3
<1>2. ASSUME NEW i \in Command, Conclude(i), Quiet' PROVE LatestUsed'
  <2>1. ~overlap /\ OwnTree(i) /\ tag[i] \in Tag \cup {Local}
    BY <1>2 DEF Conclude, Quiet, OwnKept, LlamaTyped
  <2>2. /\ UNCHANGED <<tree, launcher, mac, stuck>> /\ latest' = tag[i]
        /\ tree[tag[i]] = "whole"
        /\ doing[i] = "finish" => tag[i] = Local
        /\ doing[i] = "prune" => tag[i] \in Tag
    BY <1>2, <2>1 DEF Conclude, disk, OwnTree, LlamaTyped, InTree, InBuild
  <2>3. CASE doing[i] = "finish"
    BY <2>2, <2>3, Numbers, Distinct DEF Local, LatestUsed
  <2>4. CASE doing[i] = "prune" /\ Older(i) = {}
    <3>1. ASSUME stuck = {}, NEW t \in Tag \ {tag[i]} PROVE tree[t] = "absent"
      BY <2>4, <3>1 DEF Older
    <3>2. mac \/ launcher = tag[i]
      BY <2>1, <2>4 DEF OwnTree
    <3> QED BY <2>2, <2>4, <3>1, <3>2, Numbers, Distinct DEF Local, LatestUsed
  <2> QED BY <1>2, <2>3, <2>4 DEF Conclude
<1>3. ASSUME Resolve \/ Renew \/ Launch \/ StartFails \/ UNCHANGED llamaVars PROVE LatestUsed'
  <2>1. UNCHANGED <<doing, tree, mac, overlap, stuck, dirty, latest>> /\ (launcher' = launcher \/ mac)
    BY <1>3 DEF LlamaTyped, Resolve, Renew, Launch, StartFails, disk, aux, gateway, llamaVars
  <2> QED BY <2>1 DEF LatestUsed, Quiet, Busy
<1> QED BY <1>1, <1>2, <1>3 DEF LlamaNext, LlamaActs, LatestUsed

(* A run changes no tree of a release but its own before it removes the    *)
(* others, and one that ended well and alone was left with its own.        *)
LEMMA LatestKeptStep == ASSUME LlamaInv, [LlamaNext]_llamaVars PROVE LatestKept'
<1> USE DEF LlamaInv
<1>1. ASSUME NEW i \in Command, LlamaActs(i), LastKnown', \A j \in Command : doing'[j] # "prune"
      PROVE  LatestKept'
  <2> USE DEF LlamaTyped, Goto, Set, Advance, aux, disk, End
  <2>1. CASE Begin(i)
    <3>1. \A j \in Command : ~Busy(j)
      BY <1>1, <2>1 DEF Begin, LastKnown, Busy
    <3>2. LastKnown /\ (\A j \in Command : tag[j] = Local /\ doing[j] # "prune") /\ Local \notin Tag
      BY <1>1, <2>1, <3>1, Numbers DEF Begin, LastKnown, Busy, LlamaAlone
    <3>3. tree[latest] = "whole" /\ \A t \in Tag \ {latest} : ~HasServer(t)
      BY <3>2 DEF LatestKept, LastKnown
    <3> QED BY <2>1, <3>3 DEF Begin, LatestKept, HasServer
  <2>2. CASE Wipe(i) \/ Unpack(i) \/ Flatten(i) \/ SourceBuild(i) \/ Unlink(i) \/ WriteLauncher(i)
    <3>1. /\ UNCHANGED <<tag, overlap, stuck, dirty, latest>>
          /\ tag[i] \in Tag \cup {Local}
          /\ \A d \in (Tag \cup {Local}) \ {tag[i]} : tree'[d] = tree[d]
      BY <2>2 DEF Wipe, Unpack, Flatten, SourceBuild, Unlink, WriteLauncher, InBuild
    <3>2. LastKnown /\ \A j \in Command : doing[j] # "prune"
      <4>1. LastKnown
        BY <1>1, <3>1 DEF LastKnown
      <4>2. doing[i] # "prune"
        BY <2>2 DEF Wipe, Unpack, Flatten, SourceBuild, Unlink, WriteLauncher
      <4> QED BY <1>1, <4>1, <4>2, LlamaElsewhere
    <3> QED BY <3>1, <3>2 DEF LatestKept, LastKnown, HasServer
  <2>3. CASE FallBack(i)
    <3>1. LastKnown /\ latest' = latest /\ latest # tag[i]
      BY <1>1, <2>3, Distinct DEF FallBack, LastKnown
    <3>2. \A j \in Command : doing[j] # "prune"
      BY <1>1, <2>3, LlamaElsewhere DEF FallBack
    <3> QED BY <2>3, <3>1, <3>2, LlamaElsewhere DEF FallBack, LatestKept, HasServer, LastKnown
  <2>4. CASE \E t \in Tag : Prune(i, t)
    BY <1>1, <2>4 DEF Prune
  <2>5. CASE Conclude(i)
    <3>1. /\ OwnTree(i) /\ ~overlap /\ latest' = tag[i] /\ tag[i] \in Tag /\ stuck = {}
          /\ UNCHANGED tree
      BY <1>1, <2>5 DEF Conclude, LastKnown, OwnKept
    <3>2. doing[i] = "prune" /\ Older(i) = {}
      BY <2>5, <3>1, Numbers DEF Conclude, InBuild, Local
    <3> QED BY <3>1, <3>2 DEF LatestKept, OwnTree, Older, HasServer
  <2>6. CASE BreakOff(i)
    BY <1>1, <2>6 DEF BreakOff, LastKnown
  <2> QED BY <1>1, <2>1, <2>2, <2>3, <2>4, <2>5, <2>6 DEF LlamaActs
<1>2. ASSUME Resolve \/ Renew \/ Launch \/ StartFails \/ UNCHANGED llamaVars PROVE LatestKept'
  <2>1. UNCHANGED <<doing, tag, tree, overlap, stuck, dirty, latest>>
    BY <1>2 DEF Resolve, Renew, Launch, StartFails, disk, aux, gateway, llamaVars
  <2> QED BY <2>1 DEF LatestKept, LastKnown, HasServer
<1> QED BY <1>1, <1>2 DEF LlamaNext, LlamaActs, LatestKept

(* The invariant of the installer, for any releases, processes and runs.    *)
THEOREM LlamaSafe == LlamaSpec => []LlamaInv
<1>1. ASSUME LlamaInv, [LlamaNext]_llamaVars PROVE LlamaInv'
  BY <1>1, LlamaTypedStep, LlamaAloneStep, OwnTreeStep, LatestUsedStep, LatestKeptStep DEF LlamaInv
<1> QED BY LlamaAtFirst, <1>1, PTL DEF LlamaSpec

(* Whatever was left by runs that died, a run that was alone and ended     *)
(* well leaves its build complete, and it is the one _resolve_binary picks.*)
THEOREM ReleaseIsUsed == LlamaSpec => []InstalledIsUsed
<1>1. LlamaInv => InstalledIsUsed
  <2> SUFFICES ASSUME LlamaInv, Quiet, stuck = {}, latest \in Tag
               PROVE  tree[latest] = "whole" /\ Resolved = latest /\ (mac \/ launcher = latest)
    BY DEF LlamaInv, LatestUsed, InstalledIsUsed
  <2>1. /\ tree[latest] = "whole" /\ (mac \/ launcher = latest)
        /\ \A t \in Tag \ {latest} : tree[t] = "absent"
    BY DEF LlamaInv, LatestUsed
  <2>2. {t \in Tag : HasServer(t)} = {latest}
    BY <2>1 DEF HasServer
  <2>3. Max({latest}) = latest
    BY Numbers, Distinct DEF Local, Max
  <2> QED BY <2>1, <2>2, <2>3 DEF Resolved
<1> QED BY LlamaSafe, <1>1, PTL

(* A gateway that finds no install at what it resolves gets the release     *)
(* installed last, and starts that one or none.                            *)
THEOREM StartsSafe == LlamaSpec => StartsTheInstalled
<1> DEFINE Started ==
      LastKnown /\ ~Displacing =>
        /\ chosen = None /\ chosen' # None => chosen' = latest /\ tree[latest] = "whole"
        /\ chosen \in Tag /\ chosen' = None =>
             ~HasServer(chosen) \/ (chosen = latest /\ tree[latest] = "whole")
<1>1. ASSUME LlamaInv, [LlamaNext]_llamaVars, LastKnown, ~Displacing
      PROVE  Started
  <2>1. /\ latest \in Tag
        /\ \A i \in Command : doing[i] # "prune" /\ tag[i] \notin {latest, chosen} \cap Tag
        /\ \A i \in Command : tag[i] \in Tag /\ HasServer(tag[i]) => ~(tag[i] > latest)
    <3>1. \A i \in Command : doing[i] = "prune" => tag[i] \in Tag
      BY <1>1 DEF LlamaInv, LlamaTyped, InTree
    <3> QED BY <1>1, <3>1 DEF LastKnown, Displacing
  <2>2. /\ tree[latest] = "whole"
        /\ \A t \in Tag \ {latest} : HasServer(t) => \E i \in Command : tag[i] = t
    BY <1>1, <2>1 DEF LlamaInv, LatestKept
  <2>3. ASSUME NEW t \in Tag, HasServer(t) PROVE latest >= t
    BY <2>1, <2>2, <2>3, Numbers DEF Local
  <2>4. Resolved = latest
    <3> DEFINE Shown == {t \in Tag : HasServer(t)}
    <3>1. latest \in Shown /\ \A t \in Shown : latest >= t
      BY <2>1, <2>2, <2>3 DEF HasServer
    <3>2. Max(Shown) \in Shown /\ \A t \in Shown : Max(Shown) >= t
      BY <3>1 DEF Max
    <3>3. Max(Shown) = latest
      <4>1. \A m, n \in Nat : m >= n /\ n >= m => m = n
        OBVIOUS
      <4>2. Shown \subseteq Nat
        BY Numbers
      <4> QED BY <3>1, <3>2, <4>1, <4>2
    <3> QED BY <3>1, <3>3 DEF Resolved
  <2>5. chosen = None /\ chosen' # None => chosen' = latest
    <3>1. CASE Resolve BY <2>4, <3>1 DEF Resolve
    <3>2. CASE Renew \/ Launch \/ StartFails BY <3>2 DEF Renew, Launch, StartFails
    <3>3. CASE \E i \in Command : LlamaActs(i)
      <4>1. chosen' = chosen
        BY <1>1, <3>3, LlamaElsewhere DEF LlamaInv, gateway
      <4> QED BY <4>1
    <3> QED BY <1>1, <3>1, <3>2, <3>3 DEF LlamaNext, LlamaActs, llamaVars, gateway
  <2>6. chosen \in Tag /\ HasServer(chosen) => chosen = latest
    BY <2>1, <2>2
  <2> QED BY <2>2, <2>5, <2>6
<1>2. LlamaInv /\ [LlamaNext]_llamaVars => [Started]_llamaVars
  BY <1>1
<1> QED BY LlamaSafe, <1>2, PTL DEF LlamaSpec, StartsTheInstalled
===============================================================================
