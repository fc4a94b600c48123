---------------------------- MODULE RuntimeCutover ----------------------------
(***************************************************************************)
(* install_warp and install_dwarfstar (litmoe/cli/install.py): a built     *)
(* tree takes the place of the installed one by renames that can fail, be  *)
(* interrupted or be cut off by a crash, with a rollback of more renames.  *)
(* install_warp also replaces the launcher of its command line tool.       *)
(*                                                                         *)
(* Each run works in a stage directory of its own, which its end removes   *)
(* unless the rollback failed.  A path that does not exist holds Nothing.  *)
(***************************************************************************)
EXTENDS Naturals

CONSTANTS
  Installer,   \* runs of litmoe install; each names the tree it builds
  Old,         \* what an earlier version installed
  Nothing,
  Together,    \* may a run begin while another is under way
  Escaping,    \* may a Ctrl-C come in install_dwarfstar's handler before its try
  Mishaps,     \* bound: errors and Ctrl-C's in one run that no state explains
  Kills        \* may a run be killed

ASSUME Names == {Old, Nothing} \cap Installer = {} /\ Old # Nothing
ASSUME Switches == {Together, Escaping, Kills} \subseteq BOOLEAN /\ Mishaps \in Nat

Content == Installer \cup {Old, Nothing}
Shared == {"dest", "wrapper"}
Private == {"checkout", "staged", "backup", "launcher backup",
            "failed install", "failed launcher"}
Tree == {"dest", "checkout", "backup", "failed install"}

(* The launcher that is displaced takes the place of the one to restore.   *)
F_DisplacedOverBackup == "launcher backup"
Displaced == "failed launcher"

(* The renames, by the position they are at.                               *)
Moves ==
  [p \in {"move tree", "move launcher", "publish", "link", "displace launcher",
          "restore launcher", "displace tree", "restore tree"} |->
     CASE p = "move tree"         -> [from |-> "dest", to |-> "backup"]
       [] p = "move launcher"     -> [from |-> "wrapper", to |-> "launcher backup"]
       [] p = "publish"           -> [from |-> "checkout", to |-> "dest"]
       [] p = "link"              -> [from |-> "staged", to |-> "wrapper"]
       [] p = "displace launcher" -> [from |-> "wrapper", to |-> Displaced]
       [] p = "restore launcher"  -> [from |-> "launcher backup", to |-> "wrapper"]
       [] p = "displace tree"     -> [from |-> "dest", to |-> "failed install"]
       [] p = "restore tree"      -> [from |-> "backup", to |-> "dest"]]

Replacing == {"move tree", "move launcher", "publish", "link", "replaced"}
RollingBack == {"rollback", "displace launcher", "restore launcher",
                "rollback tree", "displace tree", "restore tree"}
Ended == {"done", "killed"}
Position == {"idle", "look", "look launcher", "rolled back", "cleaning"}
              \cup Replacing \cup RollingBack \cup Ended
Result == {"none", "installed", "reused", "failed"}

VARIABLES
  warp,         \* install_warp, or else install_dwarfstar, which has no launcher
  pc, result,
  shared,       \* what dest and wrapper hold
  stage,        \* what the paths in each stage directory hold
  hadPrevious, hadLauncher, rollbackFailed,
  mishaps,
  before        \* what dest and wrapper held when the run looked at them

vars == <<warp, pc, result, shared, stage, hadPrevious, hadLauncher, rollbackFailed, mishaps, before>>
looked == <<hadPrevious, hadLauncher, before>>
failures == <<rollbackFailed, mishaps>>

Empty == [n \in Private |-> Nothing]
Holds(i, n) == IF n \in Shared THEN shared[n] ELSE stage[i][n]
Exists(i, n) == Holds(i, n) # Nothing
Working(i) == pc[i] \notin {"idle"} \cup Ended

Init ==
  /\ warp \in BOOLEAN
  /\ pc = [i \in Installer |-> "idle"]
  /\ result = [i \in Installer |-> "none"]
  /\ shared \in [Shared -> {Old, Nothing}]
  /\ ~warp => shared["wrapper"] = Nothing
  /\ stage = [i \in Installer |-> Empty]
  /\ hadPrevious = [i \in Installer |-> FALSE]
  /\ hadLauncher = [i \in Installer |-> FALSE]
  /\ rollbackFailed = [i \in Installer |-> FALSE]
  /\ mishaps = [i \in Installer |-> 0]
  /\ before = [i \in Installer |-> shared]

MayBegin(i) == pc[i] = "idle" /\ (Together \/ \A j \in Installer : ~Working(j))

(* The installed tree is complete and pinned: there is nothing to do.      *)
Reuse(i) ==
  /\ MayBegin(i) /\ shared["dest"] \in Installer
  /\ pc' = [pc EXCEPT ![i] = "done"]
  /\ result' = [result EXCEPT ![i] = "reused"]
  /\ UNCHANGED <<warp, shared, stage, looked, failures>>

(* Clone, patch, build and check in the stage directory.                   *)
Build(i) ==
  /\ MayBegin(i) /\ shared["dest"] \notin Installer
  /\ pc' = [pc EXCEPT ![i] = "look"]
  /\ stage' = [stage EXCEPT ![i] =
       [Empty EXCEPT !["checkout"] = i, !["staged"] = IF warp THEN i ELSE Nothing]]
  /\ UNCHANGED <<warp, result, shared, looked, failures>>

LookTree(i) ==
  /\ pc[i] = "look"
  /\ hadPrevious' = [hadPrevious EXCEPT ![i] = shared["dest"] # Nothing]
  /\ before' = [before EXCEPT ![i] = shared]
  /\ pc' = [pc EXCEPT ![i] = CASE warp -> "look launcher"
                               [] ~warp /\ shared["dest"] # Nothing -> "move tree"
                               [] OTHER -> "publish"]
  /\ UNCHANGED <<warp, result, shared, stage, hadLauncher, failures>>

LookLauncher(i) ==
  /\ pc[i] = "look launcher"
  /\ hadLauncher' = [hadLauncher EXCEPT ![i] = shared["wrapper"] # Nothing]
  /\ pc' = [pc EXCEPT ![i] = CASE hadPrevious[i] -> "move tree"
                               [] ~hadPrevious[i] /\ shared["wrapper"] # Nothing -> "move launcher"
                               [] OTHER -> "publish"]
  /\ UNCHANGED <<warp, result, shared, stage, hadPrevious, before, failures>>

(* os.replace: a directory does not replace one that is not empty.         *)
Possible(i, m) == Exists(i, m.from) /\ (m.to \in Tree => ~Exists(i, m.to))

Move(i, m) ==
  LET moved(n, held) == CASE n = m.to -> Holds(i, m.from) [] n = m.from -> Nothing [] OTHER -> held
  IN  /\ shared' = [n \in Shared |-> moved(n, shared[n])]
      /\ stage' = [stage EXCEPT ![i] = [n \in Private |-> moved(n, stage[i][n])]]

Successor(i) ==
  CASE pc[i] = "move tree" /\ hadLauncher[i]  -> "move launcher"
    [] pc[i] = "move tree" /\ ~hadLauncher[i] -> "publish"
    [] pc[i] = "move launcher"                -> "publish"
    [] pc[i] = "publish"                      -> IF warp THEN "link" ELSE "replaced"
    [] pc[i] = "link"                         -> "replaced"
    [] pc[i] = "displace launcher" ->
         IF Exists(i, "launcher backup") THEN "restore launcher" ELSE "rollback tree"
    [] pc[i] = "restore launcher"             -> "rollback tree"
    [] pc[i] = "displace tree" -> IF Exists(i, "backup") THEN "restore tree" ELSE "rolled back"
    [] pc[i] = "restore tree"                 -> "rolled back"

Blocked(i) == pc[i] \in DOMAIN Moves /\ ~Possible(i, Moves[pc[i]])

(* What ends a rename: the state of the paths, or an error or a Ctrl-C     *)
(* that no state explains.                                                 *)
Mishap(i) ==
  \/ Blocked(i) /\ UNCHANGED mishaps
  \/ mishaps[i] < Mishaps /\ mishaps' = [mishaps EXCEPT ![i] = @ + 1]

Rename(i) ==
  /\ pc[i] \in DOMAIN Moves
  /\ Possible(i, Moves[pc[i]])
  /\ Move(i, Moves[pc[i]])
  /\ pc' = [pc EXCEPT ![i] = Successor(i)]
  /\ UNCHANGED <<warp, result, looked, failures>>

(* An error of a rename, or Ctrl-C before it or after the last one, leads  *)
(* to the rollback.                                                        *)
Fail(i) ==
  /\ pc[i] \in Replacing
  /\ Mishap(i)
  /\ pc' = [pc EXCEPT ![i] = IF warp THEN "rollback" ELSE "rollback tree"]
  /\ UNCHANGED <<warp, result, shared, stage, looked, rollbackFailed>>

(* In the rollback they end it.  install_dwarfstar notices only those at   *)
(* its rename.                                                             *)
RollbackFails(i) ==
  /\ pc[i] \in RollingBack
  /\ warp \/ pc[i] = "restore tree" \/ Escaping
  /\ Mishap(i)
  /\ pc' = [pc EXCEPT ![i] = "rolled back"]
  /\ rollbackFailed' = [rollbackFailed EXCEPT ![i] = warp \/ pc[i] = "restore tree"]
  /\ UNCHANGED <<warp, result, shared, stage, looked>>

RollBackLauncher(i) ==
  /\ pc[i] = "rollback"
  /\ pc' = [pc EXCEPT ![i] =
       CASE Exists(i, "wrapper") /\ (Exists(i, "launcher backup") \/ ~hadLauncher[i])
              -> "displace launcher"
         [] ~Exists(i, "wrapper") /\ Exists(i, "launcher backup") -> "restore launcher"
         [] OTHER -> "rollback tree"]
  /\ UNCHANGED <<warp, result, shared, stage, looked, failures>>

(* A tree that was not there before is left.                               *)
F_RollBackTreeOnlyRestores(i) ==
  /\ pc[i] = "rollback tree"
  /\ pc' = [pc EXCEPT ![i] =
       CASE warp /\ Exists(i, "dest") /\ Exists(i, "backup") -> "displace tree"
         [] Exists(i, "backup") /\ ~(warp /\ Exists(i, "dest")) -> "restore tree"
         [] OTHER -> "rolled back"]
  /\ UNCHANGED <<warp, result, shared, stage, looked, failures>>

(* install_dwarfstar only puts the previous tree back.                     *)
RollBackTree(i) ==
  /\ pc[i] = "rollback tree"
  /\ pc' = [pc EXCEPT ![i] =
       CASE warp /\ Exists(i, "dest") /\ (Exists(i, "backup") \/ ~hadPrevious[i]) -> "displace tree"
         [] Exists(i, "backup") /\ ~(warp /\ Exists(i, "dest")) -> "restore tree"
         [] OTHER -> "rolled back"]
  /\ UNCHANGED <<warp, result, shared, stage, looked, failures>>

Finish(i) ==
  /\ pc[i] \in {"replaced", "rolled back"}
  /\ pc' = [pc EXCEPT ![i] = "cleaning"]
  /\ result' = [result EXCEPT ![i] = IF pc[i] = "replaced" THEN "installed" ELSE "failed"]
  /\ UNCHANGED <<warp, shared, stage, looked, failures>>

(* The stage directory goes even if the rollback failed.                   *)
F_CleanAlways(i) ==
  /\ pc[i] = "cleaning"
  /\ pc' = [pc EXCEPT ![i] = "done"]
  /\ stage' = [stage EXCEPT ![i] = Empty]
  /\ UNCHANGED <<warp, result, shared, looked, failures>>

(* The stage directory goes, or stays for recovery.                        *)
Clean(i) ==
  /\ pc[i] = "cleaning"
  /\ pc' = [pc EXCEPT ![i] = "done"]
  /\ stage' = [stage EXCEPT ![i] =
       IF rollbackFailed[i] THEN [@ EXCEPT !["staged"] = Nothing] ELSE Empty]
  /\ UNCHANGED <<warp, result, shared, looked, failures>>

(* The machine stops, or the run is killed: nothing is undone.             *)
Kill(i) ==
  /\ Kills /\ Working(i)
  /\ pc' = [pc EXCEPT ![i] = "killed"]
  /\ UNCHANGED <<warp, result, shared, stage, looked, failures>>

Step(i) ==
  \/ Reuse(i) \/ Build(i) \/ LookTree(i) \/ LookLauncher(i) \/ Rename(i) \/ Fail(i) \/ RollbackFails(i)
  \/ RollBackLauncher(i) \/ RollBackTree(i) \/ Finish(i) \/ Clean(i) \/ Kill(i)

Next == \E i \in Installer : Step(i)
Spec == Init /\ [][Next]_vars

----------------------------------------------------------------------------
TypeOK ==
  /\ warp \in BOOLEAN
  /\ pc \in [Installer -> Position]
  /\ result \in [Installer -> Result]
  /\ shared \in [Shared -> Content]
  /\ stage \in [Installer -> [Private -> Content]]
  /\ hadPrevious \in [Installer -> BOOLEAN] /\ hadLauncher \in [Installer -> BOOLEAN]
  /\ rollbackFailed \in [Installer -> BOOLEAN]
  /\ mishaps \in [Installer -> 0..Mishaps]
  /\ before \in [Installer -> [Shared -> Content]]

(* A runtime that was there, or was reported as installed, stays in place  *)
(* or in a backup no clean-up has removed, whatever fails, is interrupted  *)
(* or is killed (install.py:603-637, 483-494).                             *)
RuntimeNeverLost ==
  (\E i \in Installer : before[i]["dest"] # Nothing \/ result[i] = "installed") =>
    shared["dest"] # Nothing \/ \E i \in Installer : Exists(i, "backup")

(* Nothing is in between when a run ends: the new tree with its launcher,  *)
(* or everything as it was, or the recovery files retained.  A run of      *)
(* install_dwarfstar that fails after its rename leaves the new tree.      *)
AllOrNothing ==
  \A i \in Installer :
    /\ pc[i] = "cleaning" /\ result[i] = "installed" =>
         shared["dest"] = i /\ (warp => shared["wrapper"] = i)
    /\ pc[i] = "cleaning" /\ result[i] = "failed" =>
         \/ rollbackFailed[i]
         \/ shared = before[i]
         \/ ~warp /\ before[i]["dest"] = Nothing /\ shared["dest"] = i

(* What a failed rollback leaves can be put back by hand: what a path held *)
(* is there still, or in the backup the run retains.                       *)
Recoverable ==
  \A i \in Installer : pc[i] = "cleaning" /\ rollbackFailed[i] =>
    /\ before[i]["dest"] \in {shared["dest"], stage[i]["backup"]}
    /\ before[i]["wrapper"] \in {shared["wrapper"], stage[i]["launcher backup"]}

(* The cutover, with its renames, errors and kills, implements             *)
(* Installation: of a path that holds nothing there is what a backup has.  *)
BackupOf == [dest |-> "backup", wrapper |-> "launcher backup"]
BackedUp(p) == \E i \in Installer : Exists(i, BackupOf[p])
Current == [p \in Shared |-> IF shared[p] = Nothing /\ BackedUp(p) THEN Old ELSE shared[p]]
Saved == [p \in Shared |-> IF shared[p] \in Installer /\ BackedUp(p) THEN Old ELSE Nothing]
Reported == \E i \in Installer : result[i] \in {"installed", "reused"}

Upgrade == INSTANCE Installation WITH current <- Current, saved <- Saved, reported <- Reported
ImplementsInstallation == Upgrade!Spec
===============================================================================
