----------------------------- MODULE EngineStart ------------------------------
(***************************************************************************)
(* The life of an entry of models.yaml on its way to an engine: litmoe     *)
(* install and litmoe init write it, and Gateway._start_engine checks its  *)
(* memory, corrects its context, finds a port and, for WARP, has the       *)
(* context planned.  The two searches, allocate_engine_ports and           *)
(* fit_native_context, go step by step.                                    *)
(***************************************************************************)
EXTENDS Sizing

CONSTANTS
  Machine,              \* the machines the file is used on: RAM and whether macOS
  Ctx,                  \* contexts a user asks for
  FirstPort, LastPort, Gateway, \* ports: where the search starts, 65535, the gateway's own
  LargestCtx,           \* no model of the catalog has more context
  Plan,                 \* WARP's plan_memory: the memory of each context
  PlanBudget            \* what it may use

Port == FirstPort..LastPort

ASSUME PortsOrdered == {FirstPort, LastPort, Gateway} \subseteq Nat /\ FirstPort <= LastPort
ASSUME ContextsTyped == Ctx \subseteq Nat
ASSUME ContextsBounded ==
  LargestCtx \in Nat \ {0} /\ \A m \in DOMAIN Catalog : Catalog[m].native <= LargestCtx
ASSUME PlansGrow == \A f \in Plan :
  /\ f \in [1..LargestCtx -> Nat]
  /\ \A i, j \in 1..LargestCtx : i <= j => f[i] <= f[j]
ASSUME BudgetsPositive == PlanBudget \subseteq Nat \ {0}
ASSUME MachinesKnown == \A x \in Machine : x.ram \in Nat \cup {Unknown} /\ x.mac \in BOOLEAN

VARIABLES
  machine,   \* the one it is used on
  entry,     \* the model's entry
  by,        \* auxiliary: who wrote its context, install, init, gateway or the user
  here,      \* auxiliary: for this machine
  pc,        \* idle, checked, ports, plan, halve, up, refused, no port, no plan
  busy,      \* the ports others listen on, while the search goes on
  port,      \* the one tried, then taken
  taken,     \* auxiliary: the ports found in use by the search
  plan, low, high  \* what the planner computes with

life == <<machine, entry, by, here>>
search == <<busy, port, taken>>
planner == <<plan, low, high>>
vars == <<life, pc, search, planner>>

Engine(m) == IF m \in DOMAIN Catalog /\ Catalog[m].format = "waste" THEN "warp" ELSE "llamacpp"
NoPlan == [memory |-> [i \in 1..LargestCtx |-> 0], budget |-> 1]
SizeOn(e) == IF e.quant = Unknown THEN Unknown ELSE Catalog[e.model].sizes[e.quant]

(* A user wrote the entry: a URL, a file of another name, or a quant.      *)
Init ==
  /\ machine \in Machine /\ here = FALSE /\ by = "user"
  /\ entry \in [model : Model, quant : {Unknown}, ctx : Ctx \cup {0}, auto : BOOLEAN]
  /\ pc = "idle" /\ port = FirstPort /\ taken = {}
  /\ busy = {}
  /\ plan = NoPlan /\ low = 1 /\ high = 1

-------------------------------------------------------------------------------
(* litmoe install: quant and context of the user's choice or the best.     *)
Install(m) ==
  /\ pc = "idle" /\ m \in DOMAIN Catalog
  /\ \E n \in Ctx \cup {Unknown}, q \in Quants(m) :
       /\ q = Catalog[m].default \/ Engine(m) = "llamacpp"
       /\ entry' = [model |-> m, quant |-> q,
                    ctx |-> CASE n # Unknown -> n
                              [] n = Unknown /\ Engine(m) = "warp" -> 0
                              [] OTHER -> ChooseCtx(m, Catalog[m].sizes[q], machine),
                    auto |-> n = Unknown]
       /\ by' = IF n # Unknown THEN "user"
                ELSE IF Engine(m) = "llamacpp" /\ q # ChooseQuant(m, machine) THEN "quant" ELSE "install"
  /\ here' = TRUE
  /\ UNCHANGED <<machine, pc, search, planner>>

(* litmoe init: one of the entries it writes.                              *)
InitConfig ==
  /\ pc = "idle"
  /\ \E i \in DOMAIN Picks(machine) :
       LET m == Picks(machine)[i] IN
       entry' = [model |-> m, quant |-> Catalog[m].default, ctx |-> 0, auto |-> FALSE]
  /\ by' = "init" /\ here' = TRUE
  /\ UNCHANGED <<machine, pc, search, planner>>

(* The file goes to another machine, or this one gets more memory.         *)
Move(x) ==
  /\ pc = "idle" /\ x # machine
  /\ machine' = x /\ here' = FALSE
  /\ UNCHANGED <<entry, by, pc, search, planner>>

(* Other programs come and go at any time.                                 *)
Listen(p) ==
  /\ pc = "ports" /\ busy' = IF p \in busy THEN busy \ {p} ELSE busy \cup {p}
  /\ UNCHANGED <<life, pc, port, taken, planner>>

-------------------------------------------------------------------------------
(* Gateway._start_engine.                                                  *)
Check(force) ==
  /\ pc = "idle"
  /\ pc' = IF Engine(entry.model) = "llamacpp" /\ ~force
              /\ Verdict(entry.model, SizeOn(entry), entry.ctx, machine) = "no"
           THEN "refused" ELSE "checked"
  /\ UNCHANGED <<life, search, planner>>

Resolve(c) == entry' = [entry EXCEPT !.ctx = c] /\ by' = "gateway" /\ here' = TRUE

FixContext ==
  /\ pc = "checked"
  /\ LET fitted == MemoryAware(entry.model, SizeOn(entry), entry.ctx, machine) IN
     IF Engine(entry.model) = "llamacpp" /\ fitted # entry.ctx
     THEN Resolve(fitted)
     ELSE UNCHANGED <<entry, by, here>>
  /\ pc' = "ports" /\ port' = FirstPort /\ taken' = {} /\ busy' \in SUBSET Port
  /\ UNCHANGED <<machine, planner>>

Found == IF Engine(entry.model) = "warp" THEN "plan" ELSE "up"

NextPort ==
  IF port = LastPort THEN pc' = "no port" /\ busy' = {} /\ UNCHANGED port
  ELSE port' = port + 1 /\ UNCHANGED <<pc, busy>>

(* The gateway's own port is not left out.                                 *)
F_TryPortAny ==
  /\ pc = "ports"
  /\ IF port \notin busy
     THEN pc' = (IF port = LastPort THEN "no port" ELSE Found) /\ busy' = {} /\ UNCHANGED <<port, taken>>
     ELSE taken' = taken \cup {port} /\ NextPort
  /\ UNCHANGED <<life, planner>>

(* One port.  The search fails at the last one also if that is free.       *)
TryPort ==
  /\ pc = "ports"
  /\ IF port # Gateway /\ port \notin busy
     THEN pc' = (IF port = LastPort THEN "no port" ELSE Found) /\ busy' = {} /\ UNCHANGED <<port, taken>>
     ELSE taken' = taken \cup ({port} \ {Gateway}) /\ NextPort
  /\ UNCHANGED <<life, planner>>

(* WarpEngine._prepare_context: a fixed context is not planned.            *)
KeepFixed ==
  /\ pc = "plan" /\ ~entry.auto
  /\ pc' = IF entry.ctx = 0 THEN "no plan" ELSE "up"
  /\ UNCHANGED <<life, search, planner>>

(* fit_native_context: all of the native context, or at least one block of *)
(* it.  The planner may also fail, or not answer in time.                  *)
BeginPlan ==
  LET native == Native(entry.model) IN
  /\ pc = "plan" /\ entry.auto
  /\ \E f \in Plan, b \in PlanBudget :
       /\ plan' = [memory |-> f, budget |-> b]
       /\ \/ f[native] <= b /\ pc' = "up" /\ Resolve(native) /\ UNCHANGED <<low, high>>
          \/ /\ f[native] > b /\ f[Min({native, Block})] <= b
             /\ pc' = "halve" /\ low' = 1 /\ high' = native \div Block
             /\ UNCHANGED <<entry, by, here>>
          \/ pc' = "no plan" /\ UNCHANGED <<entry, by, here, low, high>>
  /\ UNCHANGED <<machine, search>>

middle == (low + high + 1) \div 2
Affordable(c) == plan.memory[c] <= plan.budget

(* The middle that does not fit is tried again.                            *)
F_HalveAgain ==
  /\ pc = "halve" /\ low < high
  /\ IF Affordable(middle * Block) THEN low' = middle /\ UNCHANGED high
     ELSE high' = middle /\ UNCHANGED low
  /\ UNCHANGED <<life, pc, search, plan>>

(* The half above is given up where the one below should be.               *)
F_HalveBelow ==
  /\ pc = "halve" /\ low < high
  /\ IF Affordable(middle * Block) THEN low' = middle /\ UNCHANGED high
     ELSE high' = low /\ UNCHANGED low
  /\ UNCHANGED <<life, pc, search, plan>>

Halve ==
  /\ pc = "halve" /\ low < high
  /\ IF Affordable(middle * Block) THEN low' = middle /\ UNCHANGED high
     ELSE high' = middle - 1 /\ UNCHANGED low
  /\ UNCHANGED <<life, pc, search, plan>>

Planned ==
  /\ pc = "halve" /\ low = high
  /\ pc' = "up" /\ Resolve(low * Block)
  /\ UNCHANGED <<machine, search, planner>>

(* The engine is unloaded, or the start failed: another one may follow.    *)
Stop ==
  /\ pc \in {"up", "refused", "no port", "no plan"}
  /\ pc' = "idle" /\ port' = FirstPort /\ taken' = {}
  /\ plan' = NoPlan /\ low' = 1 /\ high' = 1
  /\ UNCHANGED <<life, busy>>

Next ==
  \/ (\E m \in Model : Install(m)) \/ InitConfig \/ (\E x \in Machine : Move(x))
  \/ (\E p \in Port : Listen(p)) \/ (\E force \in BOOLEAN : Check(force))
  \/ FixContext \/ TryPort \/ KeepFixed \/ BeginPlan \/ Halve \/ Planned \/ Stop

(* Neither search waits for anybody.                                       *)
Spec == Init /\ [][Next]_vars /\ WF_vars(TryPort) /\ WF_vars(Halve \/ Planned)

-------------------------------------------------------------------------------
TypeOK ==
  /\ machine \in Machine /\ here \in BOOLEAN
  /\ entry.model \in Model /\ entry.ctx \in Nat /\ entry.auto \in BOOLEAN
  /\ entry.quant \in Quant \cup {Unknown}
  /\ by \in {"user", "quant", "install", "init", "gateway"}
  /\ pc \in {"idle", "checked", "ports", "plan", "halve", "up", "refused", "no port", "no plan"}
  /\ busy \subseteq Port /\ port \in Port /\ taken \subseteq Port
  /\ plan.memory \in [1..LargestCtx -> Nat] /\ plan.budget \in Nat
  /\ low \in 1..high /\ high \in 1..LargestCtx

Fixing == pc = "checked" /\ pc' = "ports" /\ Engine(entry.model) = "llamacpp"

(* compute_memory_aware_ctx's docstring, as a definition: the target if it *)
(* fits, else the most blocks that leave a GB, and 8192 tokens at least.   *)
Wanted(c, target, seen, rate) ==
  LET left(n) == GpuBudget(machine.ram, machine.mac) - Weights(seen) - rate * n
      blocks == {n \in 1..target : n % Block = 0 /\ left(n) >= GB}
  IN CASE left(target) >= 0 -> c = target
       [] left(target) < 0 /\ left(0) > GB -> c = Max(blocks \cup {MinCtx})
       [] OTHER -> c \in MinCtx..Max({MinCtx, Cap})

(* A context less than MIN_SANE_CTX is taken for none at the next start: a *)
(* cut that deep is made again if the model's own is so much longer that   *)
(* it does not fit where the cut was made.                                 *)
Ample(m) == Rate(m) * (Native(m) - SaneCtx) >= GB

(* A start fits the context to the machine as the docstring says, whatever *)
(* context the entry had; and one that install or a gateway has fitted for *)
(* this machine is not changed: models.yaml is not rewritten at every      *)
(* start.                                                                  *)
ContextFits ==
  [][Fixing =>
       /\ machine.ram # Unknown =>
            LET seen == SizeSeen(entry.model, SizeOn(entry))
            IN Wanted(entry'.ctx, Target(entry.model, entry.ctx),
                      IF seen = Unknown THEN 0 ELSE seen, Rate(entry.model))
       /\ here /\ (by \in {"install", "quant"} \/ (by = "gateway" /\ Ample(entry.model)))
            => entry'.ctx = entry.ctx]_vars

(* What litmoe chooses without being told.  install takes a quant that the *)
(* machine holds whenever there is one, the default or the largest of      *)
(* them; and, as recommended_for_ram's docstring says, however many models *)
(* fit, init puts the default first and has one of the strongest tier      *)
(* among its three.                                                        *)
ChoicesFit ==
  machine.ram # Unknown =>
    LET budget == Budget(machine.ram, machine.mac)
        fitting == Fitting(entry.model, budget)
        fits == FitsBudget(budget)
        picks == Picks(machine)
    IN /\ (by = "install" /\ here /\ Engine(entry.model) = "llamacpp" /\ fitting # {}) =>
            /\ entry.quant \in fitting
            /\ \/ entry.quant = Catalog[entry.model].default
               \/ \A q \in fitting : Catalog[entry.model].sizes[q] <= SizeOn(entry)
       /\ fits # {} =>
            /\ DefaultModel \in fits => Head(picks) = DefaultModel
            /\ \E i \in DOMAIN picks : \A m \in fits : Catalog[m].tier <= Catalog[picks[i]].tier
            /\ \A i, j \in DOMAIN picks : picks[i] = picks[j] => i = j

(* Whoever comes and goes meanwhile, the engine gets the first port that   *)
(* was not in use when it was tried, and never the gateway's; without a    *)
(* port, only the last may have been free.                                 *)
FirstFree ==
  /\ pc \in {"plan", "halve", "up"} =>
       port \notin taken \cup {Gateway} /\ FirstPort..(port - 1) \subseteq taken \cup {Gateway}
  /\ pc = "no port" => FirstPort..(LastPort - 1) \subseteq taken \cup {Gateway}

(* fit_native_context's docstring, for every planner whose need of memory  *)
(* grows with the context: the largest that fits, in whole blocks.         *)
PlanIsLargest ==
  pc = "up" /\ Engine(entry.model) = "warp" /\ entry.auto =>
    /\ Affordable(entry.ctx)
    /\ \/ entry.ctx = Native(entry.model)
       \/ /\ entry.ctx % Block = 0
          /\ \A c \in (entry.ctx + 1)..Native(entry.model) : c % Block = 0 => ~Affordable(c)

(* Both searches come to an end.                                           *)
SearchesEnd == pc \in {"ports", "halve"} ~> pc \notin {"ports", "halve"}

(* What litmoe init says of the models it writes (main.py:200): chosen for *)
(* this RAM, each fits separately.                                         *)
EachFitsSeparately ==
  by = "init" /\ here /\ machine.ram # Unknown
    /\ FitsBudget(Budget(machine.ram, machine.mac)) # {} => pc # "refused"
===============================================================================
