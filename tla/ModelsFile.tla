------------------------------ MODULE ModelsFile ------------------------------
(***************************************************************************)
(* models.yaml and those who write it: gateways that correct the context   *)
(* of a model they start (Gateway._fix_context, WarpEngine._prepare_context *)
(* and Gateway._persist_ctx), litmoe install (add_model_to_config) and      *)
(* litmoe init.  Each reads the file, computes its new content, opens it   *)
(* with mode "w", which empties it, and writes, with no lock and no rename. *)
(***************************************************************************)
EXTENDS Naturals, Sequences, SequencesExt, FiniteSets

CONSTANTS
  Gateway, Command,  \* processes: litmoe serve; litmoe install and litmoe init
  Model,
  Engine,            \* the engine of each model: llamacpp, warp or another
  Ctx,               \* context sizes
  Legacy,            \* 0 and the old default, which mean automatic to WARP
  Fit,               \* compute_memory_aware_ctx: the context of each model and value
  Name, Claude,      \* names a model may have besides its id, also another's; those Claude Code asks for
  Picks,             \* what litmoe init writes for this machine
  Initially,         \* bound: how many models the file has at first
  Jobs               \* bound: how many jobs each command has

Policy == {"unset", "auto", "fixed"}
Entry == [id : Model, ctx : Ctx, auto : Policy, aliases : SUBSET Name]
Writer == Gateway \cup Command

ASSUME Processes == Gateway \cap Command = {} /\ IsFiniteSet(Writer)
ASSUME Contexts == Legacy \subseteq Ctx /\ 0 \in Legacy /\ {Jobs, Initially} \subseteq Nat /\ Claude \subseteq Name
ASSUME FitIsStable ==
  Fit \in [Model -> [Ctx -> Ctx]] /\ \A m \in Model, c \in Ctx : Fit[m][Fit[m][c]] = Fit[m][c]

VARIABLES
  exists, torn,  \* the file; two writers' texts in one file do not parse
  file,          \* its entries, none while it is empty
  memory,        \* the entries each gateway loaded, with its corrections
  pc, job,       \* what each writer does, and for which entry
  snapshot,      \* the entries it read
  jobs,          \* the jobs each command has had
  due,           \* auxiliary: the entry last written of each model
  stale,         \* auxiliary: the models written by others since a gateway loaded
  damaged,       \* auxiliary: writers overlapped, or one left the file empty
  clashes        \* auxiliary: the models that took a name in use when they were installed

disk == <<exists, torn, file>>
aux == <<due, stale, damaged, clashes>>
vars == <<disk, memory, pc, job, snapshot, jobs, aux>>

NoJob == [kind |-> "none"]
Gone == [id |-> "gone"]
Goto(w, p) == pc' = [pc EXCEPT ![w] = p]
Resting(w) == IF w \in Gateway THEN "serving" ELSE "idle"

Ids(s) == {s[i].id : i \in DOMAIN s}
Place(s, m) == SelectInSeq(s, LAMBDA e : e.id = m)
Named(s, m) == s[Place(s, m)]
Written(s) == [m \in Model |-> IF m \in Ids(s) THEN Named(s, m) ELSE Gone]

(* GatewayConfig._unique_ids.                                              *)
Labels(e) == {e.id} \cup e.aliases
Valid(s) == \A i, j \in DOMAIN s : s[i].id # s[j].id => Labels(s[i]) \cap Labels(s[j]) = {}

Distinct(s) == \A i, j \in DOMAIN s : s[i].id = s[j].id => i = j

(* init's models are a catalog's, each once; the first one gets the names. *)
ASSUME PicksAreEntries == Picks \in Seq(Entry) /\ Valid(Picks) /\ Distinct(Picks)

(* What a user may have written: WARP's policy is for WARP.                *)
Plausible == {e \in Entry : Engine[e.id] # "warp" => e.auto = "unset"}

Init ==
  /\ exists \in BOOLEAN
  /\ file \in IF exists THEN {s \in SeqOf(Plausible, Initially) : Valid(s) /\ Distinct(s)} ELSE {<<>>}
  /\ torn = FALSE
  /\ memory = [g \in Gateway |-> <<>>]
  /\ pc = [w \in Writer |-> "idle"]
  /\ job = [w \in Writer |-> NoJob]
  /\ snapshot = [w \in Writer |-> <<>>]
  /\ jobs = [c \in Command |-> 0]
  /\ due = Written(file)
  /\ stale = [g \in Gateway |-> {}]
  /\ damaged = FALSE
  /\ clashes = {}

(* litmoe serve loads the file once; load_config refuses one that is not   *)
(* valid, and serve one without models.                                    *)
Serve(g) ==
  /\ pc[g] = "idle" /\ exists /\ ~torn /\ Valid(file) /\ file # <<>>
  /\ memory' = [memory EXCEPT ![g] = file]
  /\ stale' = [stale EXCEPT ![g] = {}]
  /\ Goto(g, "serving")
  /\ UNCHANGED <<disk, job, snapshot, jobs, due, damaged, clashes>>

Quit(g) ==
  /\ pc[g] = "serving"
  /\ Goto(g, "idle")
  /\ memory' = [memory EXCEPT ![g] = <<>>]
  /\ UNCHANGED <<disk, job, snapshot, jobs, aux>>

(* The entry in memory is changed before the file.                           *)
Persist(g, i, e) ==
  /\ memory' = [memory EXCEPT ![g][i] = e]
  /\ job' = [job EXCEPT ![g] = [kind |-> "correct", entry |-> e]]
  /\ Goto(g, "read")
  /\ UNCHANGED <<disk, snapshot, jobs, aux>>

(* Every value is replaced by the model's fitted native context.           *)
F_FixContextNative(g, i) ==
  LET e == memory[g][i] IN
  /\ pc[g] = "serving" /\ Engine[e.id] = "llamacpp" /\ Fit[e.id][0] # e.ctx
  /\ Persist(g, i, [e EXCEPT !.ctx = Fit[e.id][0]])

FixContext(g, i) ==
  LET e == memory[g][i] IN
  /\ pc[g] = "serving" /\ Engine[e.id] = "llamacpp" /\ Fit[e.id][e.ctx] # e.ctx
  /\ Persist(g, i, [e EXCEPT !.ctx = Fit[e.id][e.ctx]])

Automatic(e) == e.auto = "auto" \/ (e.auto = "unset" /\ e.ctx \in Legacy)

(* WARP's planner finds what fits now.  The result is persisted only after *)
(* the engine was started, and only if it differs from what was in memory. *)
PrepareContext(g, i) ==
  LET e == memory[g][i] IN
  /\ pc[g] = "serving" /\ Engine[e.id] = "warp"
  /\ \E c \in IF Automatic(e) THEN Ctx \ {0} ELSE {e.ctx} \ {0} :
       LET planned == [e EXCEPT !.ctx = c, !.auto = IF Automatic(e) THEN "auto" ELSE "fixed"] IN
       /\ planned # e
       /\ \/ Persist(g, i, planned)
          \/ /\ memory' = [memory EXCEPT ![g][i] = planned]  \* the engine did not start
             /\ UNCHANGED <<disk, pc, job, snapshot, jobs, aux>>

(* litmoe install, once the model is there; WARP's context is automatic    *)
(* unless the command gives one.                                           *)
Install(c, m, n) ==
  /\ pc[c] = "idle" /\ jobs[c] < Jobs
  /\ Engine[m] = "llamacpp" => n # 0
  /\ jobs' = [jobs EXCEPT ![c] = @ + 1]
  /\ LET policy == IF Engine[m] # "warp" THEN "unset" ELSE IF n = 0 THEN "auto" ELSE "fixed"
     IN job' = [job EXCEPT ![c] = [kind  |-> "add",
                                   entry |-> [id |-> m, ctx |-> n, auto |-> policy, aliases |-> {}]]]
  /\ Goto(c, "read")
  /\ UNCHANGED <<disk, memory, snapshot, aux>>

(* litmoe init asks for --force only if there is a file at that time.      *)
InitConfig(c) ==
  /\ pc[c] = "idle" /\ jobs[c] < Jobs
  /\ jobs' = [jobs EXCEPT ![c] = @ + 1]
  /\ job' = [job EXCEPT ![c] = [kind |-> "init"]]
  /\ Goto(c, "read")
  /\ UNCHANGED <<disk, memory, snapshot, aux>>

Busy(w) == pc[w] \in {"open", "dump"}
Overlaps(w) == \E v \in Writer \ {w} : Busy(v)

(* A file that does not parse makes install fail and a gateway give up.    *)
Read(w) ==
  /\ pc[w] = "read" /\ (job[w].kind = "init" \/ ~torn)
  /\ snapshot' = [snapshot EXCEPT ![w] = file]
  /\ damaged' = (damaged \/ Overlaps(w))
  /\ Goto(w, "open")
  /\ UNCHANGED <<disk, memory, job, jobs, due, stale, clashes>>

Open(w) ==
  /\ pc[w] = "open"
  /\ exists' = TRUE /\ torn' = FALSE /\ file' = <<>>
  /\ Goto(w, "dump")
  /\ UNCHANGED <<memory, job, snapshot, jobs, aux>>

(* The first model of a file gets the names for Claude Code.               *)
F_AliasesForEach(m, s) == IF m \in Ids(s) THEN Named(s, m).aliases ELSE Claude

AliasesFor(m, s) ==
  IF m \in Ids(s) /\ Named(s, m).aliases # {} THEN Named(s, m).aliases
  ELSE IF \A i \in DOMAIN s : s[i].id # m => s[i].aliases = {} THEN Claude ELSE {}

Others(m, s) == FoldLeft(LAMBDA kept, e : IF e.id = m THEN kept ELSE Append(kept, e), <<>>, s)

(* The last entry is corrected, whichever it is.                           *)
F_CorrectedLast(e, s) == [s EXCEPT ![Len(s)].ctx = e.ctx]

(* A correction writes the context and WARP's policy; other fields stay.   *)
WithContext(old, e) ==
  [old EXCEPT !.ctx = e.ctx, !.auto = IF Engine[e.id] = "warp" THEN e.auto ELSE @]

(* The first entry with the id is changed.                                 *)
Corrected(e, s) ==
  IF e.id \notin Ids(s) THEN s ELSE [s EXCEPT ![Place(s, e.id)] = WithContext(@, e)]

Added(e, s) == Append(Others(e.id, s), [e EXCEPT !.aliases = AliasesFor(e.id, s)])

Content(j, s) ==
  CASE j.kind = "correct" -> Corrected(j.entry, s)
    [] j.kind = "add" -> Added(j.entry, s)
    [] j.kind = "init" -> Picks

(* What a job is meant to leave of each model.                             *)
Meant(j, content) ==
  IF j.kind = "init" THEN Written(content)
  ELSE IF j.kind = "correct" /\ due[j.entry.id] = Gone THEN due
  ELSE [due EXCEPT ![j.entry.id] =
          IF j.kind = "add" THEN [j.entry EXCEPT !.aliases = Named(content, j.entry.id).aliases]
          ELSE WithContext(@, j.entry)]

(* The id of the installed model is another's alias, or an alias it gets   *)
(* is another's id: add_model_to_config looks for neither.                 *)
Takes(j, s) ==
  {m \in {j.entry.id} : \E i \in DOMAIN s :
     s[i].id # m /\ (m \in s[i].aliases \/ s[i].id \in AliasesFor(m, s))}

Concerns(j) == IF j.kind = "init" THEN Model ELSE {j.entry.id}

Forget(w) == job' = [job EXCEPT ![w] = NoJob] /\ snapshot' = [snapshot EXCEPT ![w] = <<>>]

(* The text goes to the start of the file.  If another writer was faster   *)
(* and its text is longer, its end remains.                                *)
Dump(w) ==
  /\ pc[w] = "dump"
  /\ LET content == Content(job[w], snapshot[w]) IN
     /\ file' = content
     /\ torn' \in IF file = <<>> /\ ~torn THEN {FALSE} ELSE BOOLEAN
     /\ due' = Meant(job[w], content)
  /\ clashes' = clashes \cup IF job[w].kind = "add" THEN Takes(job[w], snapshot[w]) ELSE {}
  /\ stale' = [g \in Gateway |-> stale[g] \cup (IF g = w THEN {} ELSE Concerns(job[w]))]
  /\ Goto(w, Resting(w)) /\ Forget(w)
  /\ UNCHANGED <<exists, memory, jobs, damaged>>

(* An error of the file system or of the parser ends the job.              *)
GiveUp(w) ==
  /\ pc[w] \in {"read", "open", "dump"}
  /\ damaged' = (damaged \/ pc[w] = "dump")
  /\ Goto(w, Resting(w)) /\ Forget(w)
  /\ UNCHANGED <<disk, memory, jobs, due, stale, clashes>>

Kill(g) ==
  /\ pc[g] \in {"read", "open", "dump"}
  /\ damaged' = (damaged \/ pc[g] = "dump")
  /\ Goto(g, "idle") /\ Forget(g)
  /\ memory' = [memory EXCEPT ![g] = <<>>]
  /\ UNCHANGED <<disk, jobs, due, stale, clashes>>

Next ==
  \/ \E g \in Gateway :
       \/ Serve(g) \/ Quit(g) \/ Kill(g)
       \/ \E i \in DOMAIN memory[g] : FixContext(g, i) \/ PrepareContext(g, i)
  \/ \E c \in Command : InitConfig(c) \/ \E m \in Model, n \in Ctx : Install(c, m, n)
  \/ \E w \in Writer : Read(w) \/ Open(w) \/ Dump(w) \/ GiveUp(w)

Spec == Init /\ [][Next]_vars

-------------------------------------------------------------------------------
TypeOK ==
  /\ {exists, torn, damaged} \subseteq BOOLEAN
  /\ file \in Seq(Entry)
  /\ memory \in [Gateway -> Seq(Entry)] /\ snapshot \in [Writer -> Seq(Entry)]
  /\ pc \in [Writer -> {"idle", "serving", "read", "open", "dump"}]
  /\ \A w \in Writer : job[w].kind \in {"add", "correct"} => job[w].entry \in Entry
  /\ jobs \in [Command -> 0..Jobs]
  /\ due \in [Model -> Entry \cup {Gone}]
  /\ stale \in [Gateway -> SUBSET Model]
  /\ clashes \subseteq Model

(* Whatever the writers do to each other, a file that parses has each      *)
(* model once and no alias twice, so the names for Claude Code are handed  *)
(* out once; and an alias is another model's id only if one of the two was *)
(* installed over a name in use, which is all that makes load_config       *)
(* refuse what litmoe itself has written.                                  *)
FileValid ==
  ~torn => /\ Distinct(file)
           /\ \A i, j \in DOMAIN file : file[i].id # file[j].id =>
                /\ file[i].aliases \cap file[j].aliases = {}
                /\ file[i].id \in file[j].aliases => {file[i].id, file[j].id} \cap clashes # {}

(* What serve needs of every writer: that it accepts what they write.      *)
FileAccepted == ~torn => Valid(file)

(* Only overlapping writers, or one that stops between emptying the file   *)
(* and writing it, lose anything: else every model has the entry last      *)
(* written for it by install, init or a correction, and no other changed.  *)
NothingLost ==
  ~damaged /\ (\A w \in Writer : pc[w] # "dump") => ~torn /\ Written(file) = due

Corrects(g, m) ==
  pc[g] = "dump" /\ job[g].kind = "correct" /\ pc'[g] # "dump" /\ due'[m] # due[m]

(* The docstring of _fix_context and ModelEntry's comment on WARP's policy *)
(* (config.py:75): only a value that is stale or does not fit is corrected, *)
(* and a context the user fixed stays, ...                                 *)
OnlyBadValues(g, m) ==
  Corrects(g, m) => CASE Engine[m] = "llamacpp" -> Fit[m][due[m].ctx] # due[m].ctx
                      [] Engine[m] = "warp" -> due[m].auto # "fixed"

(* ... if the gateway knows the entry that it corrects.                    *)
OnlyBadValuesChange ==
  [][\A g \in Gateway, m \in Model : ~damaged /\ m \notin stale[g] => OnlyBadValues(g, m)]_vars

(* ... also while models are installed: it knows what it loaded.           *)
OnlyBadValuesEverChange ==
  [][\A g \in Gateway, m \in Model : ~damaged => OnlyBadValues(g, m)]_vars
===============================================================================
