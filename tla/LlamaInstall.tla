----------------------------- MODULE LlamaInstall -----------------------------
(***************************************************************************)
(* litmoe install for llama.cpp (install_llamacpp): a release is unpacked  *)
(* in a tree of its own, the launcher is replaced and older trees are      *)
(* removed; or the engine is built from source into one directory.  A      *)
(* gateway resolves the binary (LlamaCppEngine._resolve_binary) and starts *)
(* it at any time.  Nothing is locked, and a run may be killed anywhere.   *)
(***************************************************************************)
EXTENDS Naturals, FiniteSets, FiniteSetsExt, TLC

CONSTANTS
  Tag,        \* the trees' names in their order as text
  Command,    \* processes litmoe install
  Runs,       \* bound: how many installs each process starts
  None, Path  \* no binary; the one on the PATH, which is the launcher

Local == 0    \* the directory of the source build

ASSUME Numbers == Tag \subseteq Nat \ {Local} /\ IsFiniteSet(Tag) /\ Runs \in Nat
ASSUME Distinct == {None, Path} \cap (Tag \cup {Local}) = {} /\ None # Path

VARIABLES
  mac,        \* is the machine a Mac
  tree,       \* of each directory: absent, empty (no llama-server), bare (it lacks files),
              \* raw (complete, on a Mac with its library paths not yet rewritten), whole
  launcher,   \* bin/llama-server: what it executes
  doing, tag, \* of each install: what it does, and the release or Local
  runs,       \* how many each process has started
  chosen,     \* what a starting gateway resolved
  renewed,    \* on a Mac: it has copied its files over themselves and removed the launcher
  overlap,    \* auxiliary: two installs ran at a time
  stuck,      \* auxiliary: old trees that could not be removed
  dirty,      \* auxiliary: an install ended badly since the last that ended well and alone
  latest      \* auxiliary: what that one installed, if it was not replaced by a build since

disk == <<tree, launcher>>
aux == <<overlap, stuck, dirty, latest>>
gateway == <<chosen, renewed>>
llamaVars == <<mac, disk, doing, tag, runs, gateway, aux>>

Goto(i, p) == doing' = [doing EXCEPT ![i] = p]
Set(d, s) == tree' = [tree EXCEPT ![d] = s]
Busy(i) == doing[i] # "idle"
End(i) == Goto(i, "idle") /\ tag' = [tag EXCEPT ![i] = Local]
HasServer(d) == tree[d] \in {"bare", "raw", "whole"}

(* The source build goes first, as it was before there were releases.      *)
F_ResolvedLocalFirst ==
  IF HasServer(Local) THEN Local
  ELSE IF \E t \in Tag : HasServer(t) THEN Max({t \in Tag : HasServer(t)}) ELSE Path

(* The tree with the greatest name, then the source build, then the PATH.  *)
Resolved ==
  IF \E t \in Tag : HasServer(t) THEN Max({t \in Tag : HasServer(t)})
  ELSE IF HasServer(Local) THEN Local ELSE IF launcher # None THEN Path ELSE None

LlamaInit ==
  /\ mac \in BOOLEAN
  /\ tree \in [Tag \cup {Local} -> {"absent", "whole"}]
  /\ \A t, u \in Tag : HasServer(t) /\ HasServer(u) => t = u
  /\ launcher = IF \E t \in Tag : HasServer(t) THEN Max({t \in Tag : HasServer(t)})
                ELSE IF HasServer(Local) THEN Local ELSE None
  /\ doing = [i \in Command |-> "idle"]
  /\ tag = [i \in Command |-> Local]
  /\ runs = [i \in Command |-> 0]
  /\ chosen = None /\ renewed = FALSE
  /\ overlap = FALSE /\ stuck = {} /\ dirty = FALSE /\ latest = launcher

-------------------------------------------------------------------------------
(* install_llamacpp picks a release with an asset for this machine, or     *)
(* builds: where glibc is too old, and on a Mac without a usable release.  *)
Begin(i) ==
  /\ ~Busy(i) /\ runs[i] < Runs
  /\ runs' = [runs EXCEPT ![i] = @ + 1]
  /\ \/ \E t \in Tag : tag' = [tag EXCEPT ![i] = t] /\ Goto(i, "wipe")
     \/ tag' = [tag EXCEPT ![i] = Local] /\ Goto(i, "build")
  /\ overlap' = \E j \in Command \ {i} : Busy(j)
  /\ UNCHANGED <<mac, disk, gateway, stuck, dirty, latest>>

Advance(i, p, q) == doing[i] = p /\ Goto(i, q) /\ UNCHANGED <<tag, runs, mac, gateway, aux>>

(* Older releases make room for the new one.                               *)
F_WipePrunes(i) ==
  /\ Advance(i, "wipe", "unpack")
  /\ tree' = [t \in Tag |-> IF t = tag[i] THEN "empty" ELSE "absent"] @@ (Local :> tree[Local])
  /\ UNCHANGED launcher

(* rmtree, file by file, and mkdir.                                        *)
Wipe(i) ==
  /\ \/ tree[tag[i]] \in {"raw", "whole"} /\ Advance(i, "wipe", "wipe") /\ Set(tag[i], "bare")
     \/ tree[tag[i]] \notin {"raw", "whole"} /\ Advance(i, "wipe", "unpack") /\ Set(tag[i], "empty")
  /\ UNCHANGED launcher

Unpacked == IF mac THEN "raw" ELSE "whole"

(* Download and extraction.  The archive may have no llama-server.         *)
Unpack(i) ==
  /\ \/ tree[tag[i]] = "empty" /\ Advance(i, "unpack", "unpack") /\ Set(tag[i], "bare")
     \/ tree[tag[i]] = "bare" /\ Advance(i, "unpack", "flatten") /\ Set(tag[i], Unpacked)
     \/ tree[tag[i]] # "bare" /\ Advance(i, "unpack", "flatten") /\ UNCHANGED tree
  /\ UNCHANGED launcher

(* On a Mac an archive without llama-server is answered with a build.      *)
FallBack(i) ==
  /\ mac /\ doing[i] = "flatten" /\ ~HasServer(tag[i])
  /\ Goto(i, "build") /\ tag' = [tag EXCEPT ![i] = Local]
  /\ latest' = IF latest = tag[i] THEN None ELSE latest
  /\ UNCHANGED <<disk, runs, mac, gateway, overlap, stuck, dirty>>

(* What lies beside llama-server is moved up, one after the other; on a    *)
(* Mac it is copied over itself.                                           *)
Flatten(i) ==
  /\ HasServer(tag[i])
  /\ \/ Advance(i, "flatten", "flat") /\ Set(tag[i], "bare")
     \/ Advance(i, "flatten", "unlink") /\ UNCHANGED tree
     \/ Advance(i, "flat", "unlink") /\ Set(tag[i], Unpacked)
  /\ UNCHANGED launcher

(* The build ends in copies: llama-server, then its libraries, on a Mac    *)
(* OpenSSL's too, and there their paths are rewritten.                     *)
SourceBuild(i) ==
  /\ \/ Advance(i, "build", "copy") /\ Set(Local, "bare")
     \/ Advance(i, "copy", "unlink") /\ Set(Local, "whole")
  /\ UNCHANGED launcher

Unlink(i) == Advance(i, "unlink", "launcher") /\ launcher' = None /\ UNCHANGED tree

(* On a Mac the paths in a release's libraries are rewritten first.  A     *)
(* source build removes no other tree.                                     *)
WriteLauncher(i) ==
  /\ Advance(i, "launcher", IF tag[i] = Local THEN "finish" ELSE "prune")
  /\ tree' = [tree EXCEPT ![tag[i]] = IF @ = "raw" THEN "whole" ELSE @]
  /\ launcher' = tag[i]

Older(i) == {t \in Tag \ {tag[i]} : tree[t] # "absent" /\ t \notin stuck}

(* rmtree with ignore_errors, file by file.                                *)
Prune(i, t) ==
  /\ doing[i] = "prune" /\ t \in Older(i)
  /\ \/ tree[t] \in {"raw", "whole"} /\ Set(t, "bare") /\ UNCHANGED stuck
     \/ tree[t] \notin {"raw", "whole"} /\ Set(t, "absent") /\ UNCHANGED stuck
     \/ stuck' = stuck \cup {t} /\ UNCHANGED tree
  /\ UNCHANGED <<launcher, doing, tag, runs, mac, gateway, overlap, dirty, latest>>

Conclude(i) ==
  /\ doing[i] = "finish" \/ (doing[i] = "prune" /\ Older(i) = {})
  /\ End(i) /\ dirty' = overlap /\ latest' = tag[i]
  /\ UNCHANGED <<disk, runs, mac, gateway, overlap, stuck>>

(* An error of the network, the disk or the build, Ctrl-C, or SIGKILL.     *)
BreakOff(i) ==
  /\ Busy(i) /\ End(i) /\ dirty' = TRUE
  /\ UNCHANGED <<disk, runs, mac, gateway, overlap, stuck, latest>>

-------------------------------------------------------------------------------
(* A gateway starts an engine: build_command resolves the binary.          *)
Resolve ==
  /\ chosen = None /\ Resolved # None
  /\ chosen' = Resolved
  /\ UNCHANGED <<disk, renewed, doing, tag, runs, mac, aux>>

(* On a Mac, unless it is the one on the PATH, its tree's files are copied *)
(* and the copies moved over them, which leaves the tree what it is, and   *)
(* the launcher is removed, ...                                            *)
Renew ==
  /\ mac /\ chosen \notin {None, Path} /\ ~renewed
  /\ renewed' = TRUE /\ launcher' = None
  /\ UNCHANGED <<tree, chosen, doing, tag, runs, mac, aux>>

(* ... and written anew before Popen runs it.                              *)
Launch ==
  /\ chosen # None /\ (mac /\ chosen # Path => renewed)
  /\ launcher' = IF renewed THEN chosen ELSE launcher
  /\ chosen' = None /\ renewed' = FALSE
  /\ UNCHANGED <<tree, doing, tag, runs, mac, aux>>

(* A file gone meanwhile, a full disk, a kill.                             *)
StartFails ==
  /\ chosen # None
  /\ chosen' = None /\ renewed' = FALSE
  /\ UNCHANGED <<disk, doing, tag, runs, mac, aux>>

LlamaNext ==
  \/ \E i \in Command :
       \/ Begin(i) \/ Wipe(i) \/ Unpack(i) \/ FallBack(i) \/ Flatten(i) \/ SourceBuild(i)
       \/ Unlink(i) \/ WriteLauncher(i) \/ (\E t \in Tag : Prune(i, t)) \/ Conclude(i) \/ BreakOff(i)
  \/ Resolve \/ Renew \/ Launch \/ StartFails

LlamaSpec == LlamaInit /\ [][LlamaNext]_llamaVars

-------------------------------------------------------------------------------
LlamaTypeOK ==
  /\ tree \in [Tag \cup {Local} -> {"absent", "empty", "bare", "raw", "whole"}]
  /\ {launcher, latest} \subseteq Tag \cup {Local, None}
  /\ chosen \in Tag \cup {Local, Path, None} /\ (renewed => mac /\ chosen \in Tag \cup {Local})
  /\ \A i \in Command : tag[i] = Local \/ doing[i] \notin {"build", "copy", "finish"}
  /\ runs \in [Command -> 0..Runs] /\ stuck \subseteq Tag

Quiet == ~overlap /\ ~dirty /\ \A i \in Command : ~Busy(i)

(* Whatever was left by runs that died before, a run that ends well leaves *)
(* what it installed complete, and a gateway uses it: the comment in       *)
(* _resolve_binary (llamacpp.py:51-55).  Not so after two runs at a time,  *)
(* beside a tree that could not be removed, or for a build beside releases.*)
InstalledIsUsed ==
  /\ Quiet /\ stuck = {} /\ latest \in Tag =>
       tree[latest] = "whole" /\ Resolved = latest /\ (mac \/ launcher = latest)
  /\ Quiet /\ latest = Local => tree[Local] = "whole"

LastKnown == ~overlap /\ ~dirty /\ stuck = {} /\ latest \in Tag

(* An install has come to what the gateway chose or would choose: it does  *)
(* the same release again, its own has a greater name and shows a          *)
(* llama-server, or it removes the others.                                 *)
Displacing ==
  \E i \in Command : tag[i] \in Tag /\ \/ tag[i] \in {latest, chosen}
                                       \/ tag[i] > latest /\ HasServer(tag[i])
                                       \/ doing[i] = "prune"

(* Until then a gateway resolves the release installed last, complete,     *)
(* through downloads, unpacking, builds and launchers missing or changed;  *)
(* and what it starts then, of the releases, is that one or has gone:      *)
(* never an older one or half of one (llamacpp.py:51-64, install.py:796).  *)
StartsTheInstalled ==
  [][LastKnown /\ ~Displacing =>
       /\ chosen = None /\ chosen' # None => chosen' = latest /\ tree[latest] = "whole"
       /\ chosen \in Tag /\ chosen' = None =>
            ~HasServer(chosen) \/ (chosen = latest /\ tree[latest] = "whole")]_llamaVars
===============================================================================
