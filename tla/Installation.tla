----------------------------- MODULE Installation -----------------------------
(***************************************************************************)
(* What an installer of a runtime promises, with no renames, backups or    *)
(* rollback in it: a tree and then its launcher are replaced and, until a  *)
(* run has reported an installation, put back in the opposite order; what  *)
(* was there before is given up after that report only, and what was       *)
(* reported stays for good.                                                *)
(***************************************************************************)
CONSTANTS
  Installer,  \* the runs, each the name of what it builds
  Old, Nothing

VARIABLES
  current,    \* what there is of each path, in its place or to be put back there
  saved,      \* what it would be without the run that replaced it
  reported    \* has a run ended well

vars == <<current, saved, reported>>

Path == {"dest", "wrapper"}

Init ==
  /\ current \in [Path -> {Old, Nothing}]
  /\ saved = [p \in Path |-> Nothing]
  /\ reported = FALSE

Replace(i, p) ==
  /\ ~reported /\ current[p] \notin Installer
  /\ current' = [current EXCEPT ![p] = i]
  /\ saved' = [saved EXCEPT ![p] = current[p]]
  /\ UNCHANGED reported

PutBack(p) ==
  /\ ~reported /\ current[p] \in Installer
  /\ current' = [current EXCEPT ![p] = saved[p]]
  /\ saved' = [saved EXCEPT ![p] = Nothing]
  /\ UNCHANGED reported

(* The tree comes before its launcher, and goes after it.                  *)
ReplaceTree(i) == Replace(i, "dest")
ReplaceLauncher(i) == current["dest"] = i /\ Replace(i, "wrapper")
PutBackLauncher == PutBack("wrapper")
PutBackTree == current["wrapper"] \notin Installer /\ PutBack("dest")

(* A run installed its tree, with its launcher if it has one, or found a   *)
(* tree that is complete.                                                  *)
Report(i) ==
  /\ current["dest"] = i /\ current["wrapper"] \in {i, Nothing}
  /\ reported' = TRUE
  /\ UNCHANGED <<current, saved>>

Find ==
  /\ current["dest"] \in Installer
  /\ reported' = TRUE
  /\ UNCHANGED <<current, saved>>

GiveUp ==
  /\ reported
  /\ saved' \in [Path -> {Old, Nothing}]
  /\ \A p \in Path : saved'[p] \in {saved[p], Nothing}
  /\ UNCHANGED <<current, reported>>

Next ==
  \/ \E i \in Installer : ReplaceTree(i) \/ ReplaceLauncher(i) \/ Report(i)
  \/ PutBackLauncher \/ PutBackTree \/ Find \/ GiveUp

Spec == Init /\ [][Next]_vars
===============================================================================
