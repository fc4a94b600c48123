-------------------------------- MODULE Sizing --------------------------------
(***************************************************************************)
(* The arithmetic of memory and context: what a model needs, what a        *)
(* machine has, the context that fits, the quant to install and the models *)
(* to recommend (models.py, server.py and cli/install.py).  Contexts are   *)
(* in units of 1024 tokens and memory in twentieths of a GB, which keeps   *)
(* every percentage of the code a whole number.                            *)
(***************************************************************************)
EXTENDS Integers, Sequences, FiniteSets, FiniteSetsExt

CONSTANTS
  Model, Quant,
  Catalog,       \* KNOWN_MODELS: a record for each model it knows
  DefaultModel,
  Tiers,         \* the RAM tiers in GB, a set
  Unknown        \* no RAM detected, no file to measure

GB == 20
Block == 4
MinCtx == 8
SaneCtx == 16  \* MIN_SANE_CTX
Cap == 32      \* also the context a tier is reckoned with
Headroom == 6 * GB
FallbackNative == 128
FallbackRate == 1

(* What KNOWN_MODELS says of a model.                                      *)
IsInfo(info) ==
  /\ info.format \in {"gguf", "waste"}
  /\ info.native \in Nat \ {0} /\ info.rate \in Nat \ {0}  \* KV cache per 1024 tokens
  /\ DOMAIN info.sizes \subseteq Quant /\ DOMAIN info.sizes # {} /\ IsFiniteSet(DOMAIN info.sizes)
  /\ \A q \in DOMAIN info.sizes : info.sizes[q] \in Nat \ {0}  \* GB of each quant
  /\ info.default \in Quant /\ info.tier \in Tiers
  /\ info.active \in Nat                            \* parameters per token

Gguf == {m \in DOMAIN Catalog : Catalog[m].format = "gguf"}
Quants(m) == DOMAIN Catalog[m].sizes

Weights(gb) == 22 * gb                 \* _MODEL_OVERHEAD is 10 per cent
RamNeeded(m, q) == Weights(Catalog[m].sizes[q]) + Catalog[m].rate * Cap + Headroom

TierFor(m) ==
  LET enough == {t \in Tiers : RamNeeded(m, Catalog[m].default) <= t * GB}
  IN IF enough = {} THEN Max(Tiers) ELSE Min(enough)

(* What validate_catalog finds wrong with an entry for llama.cpp.          *)
Problems == {m \in Gguf : \/ Catalog[m].default \notin Quants(m)
                          \/ Catalog[m].native < Block
                          \/ Catalog[m].tier # TierFor(m)}

ASSUME CatalogTyped ==
  /\ DOMAIN Catalog \subseteq Model /\ IsFiniteSet(DOMAIN Catalog)
  /\ \A m \in DOMAIN Catalog : IsInfo(Catalog[m])
ASSUME TiersTyped == Tiers \subseteq Nat
ASSUME UnknownIsNone == Unknown \notin Nat \cup Quant
ASSUME CatalogConsistent ==
  Problems = {} /\ DefaultModel \in Gguf /\ Catalog[DefaultModel].tier = Min(Tiers)

-------------------------------------------------------------------------------
(* memory_budgets_gb; and the budget by which models are recommended.      *)
RamLimit(ram) == 18 * ram - 3 * GB
GpuBudget(ram, mac) == IF mac THEN 15 * ram ELSE RamLimit(ram)
Budget(ram, mac) == IF mac THEN 15 * ram ELSE 20 * ram

(* The largest multiple of a block whose KV cache fits.                    *)
WholeBlocks(room, rate) == ((room \div rate) \div Block) * Block

(* Weights are reckoned without their overhead.                            *)
F_FitContextBare(rate, gb, ram, target, mac) ==
  LET room == GpuBudget(ram, mac) - GB * gb - GB IN
  CASE rate * target <= room -> target
    [] rate * target > room /\ room > 0 -> Max({WholeBlocks(room, rate), MinCtx})
    [] OTHER -> Max({Min({target, Cap}), MinCtx})

(* A context beside weights that are too large is halved.                  *)
F_FitContextHalves(rate, gb, ram, target, mac) ==
  LET budget == GpuBudget(ram, mac) - Weights(gb) IN
  CASE rate * target <= budget -> target
    [] rate * target > budget /\ budget > GB -> Max({WholeBlocks(budget - GB, rate), MinCtx})
    [] OTHER -> Max({target \div 2, MinCtx})

FitContext(rate, gb, ram, target, mac) ==
  LET budget == GpuBudget(ram, mac) - Weights(gb) IN
  CASE rate * target <= budget -> target
    [] rate * target > budget /\ budget > GB -> Max({WholeBlocks(budget - GB, rate), MinCtx})
    [] OTHER -> Max({Min({target, Cap}), MinCtx})

Native(m) == IF m \in DOMAIN Catalog THEN Catalog[m].native ELSE FallbackNative
Rate(m) == IF m \in DOMAIN Catalog THEN Catalog[m].rate ELSE FallbackRate
Target(m, ctx) == IF ctx >= SaneCtx THEN ctx ELSE Native(m)

(* weights_size_gb, or what the catalog says of the default quant.         *)
SizeSeen(m, gb) ==
  IF gb # Unknown THEN gb ELSE IF m \in Gguf THEN Catalog[m].sizes[Catalog[m].default] ELSE Unknown

(* compute_memory_aware_ctx.                                               *)
MemoryAware(m, gb, ctx, machine) ==
  LET seen == SizeSeen(m, gb) IN
  IF machine.ram = Unknown THEN Target(m, ctx)
  ELSE FitContext(Rate(m), IF seen = Unknown THEN 0 ELSE seen, machine.ram, Target(m, ctx), machine.mac)

(* estimate_ram_gb and check_fits_together, for the one model a gateway    *)
(* starts: the verdict "no", unless the RAM or the size is unknown.        *)
Verdict(m, gb, ctx, machine) ==
  IF machine.ram = Unknown \/ SizeSeen(m, gb) = Unknown THEN "none"
  ELSE LET total == Weights(SizeSeen(m, gb)) + Rate(m) * MemoryAware(m, gb, ctx, machine) + Headroom
       IN CASE total > RamLimit(machine.ram) -> "no"
            [] OTHER -> IF total > GpuBudget(machine.ram, machine.mac) THEN "slow" ELSE "ok"

-------------------------------------------------------------------------------
Fitting(m, budget) == {q \in Quants(m) : RamNeeded(m, q) <= budget}
Largest(m, S) == CHOOSE q \in S : \A r \in S : Catalog[m].sizes[r] <= Catalog[m].sizes[q]
Smallest(m) == CHOOSE q \in Quants(m) : \A r \in Quants(m) : Catalog[m].sizes[q] <= Catalog[m].sizes[r]

(* The largest quant is taken if none fits.                                *)
F_ChooseQuantLargest(m, machine) ==
  LET fitting == Fitting(m, Budget(machine.ram, machine.mac)) IN
  IF machine.ram = Unknown \/ Catalog[m].default \in fitting THEN Catalog[m].default
  ELSE Largest(m, Quants(m))

ChooseQuant(m, machine) ==
  LET fitting == Fitting(m, Budget(machine.ram, machine.mac)) IN
  CASE machine.ram = Unknown -> Catalog[m].default
    [] OTHER -> IF Catalog[m].default \in fitting THEN Catalog[m].default
                ELSE IF fitting # {} THEN Largest(m, fitting) ELSE Smallest(m)

(* choose_n_ctx, with the weights that were downloaded.                    *)
ChooseCtx(m, gb, machine) ==
  IF machine.ram = Unknown THEN Native(m)
  ELSE FitContext(Rate(m), gb, machine.ram, Native(m), machine.mac)

(* recommended_for_ram, in the order in which init writes them.            *)
FitsBudget(budget) == {m \in Gguf : RamNeeded(m, Catalog[m].default) <= budget}
BySpeed(S) ==
  CHOOSE s \in [1..Cardinality(S) -> S] : \A i, j \in DOMAIN s :
    i < j => s[i] # s[j] /\ Catalog[s[i]].active <= Catalog[s[j]].active

(* The fastest first, whatever their tier.                                 *)
F_RecommendedBySpeed(budget, k) ==
  LET all == BySpeed(FitsBudget(budget)) IN SubSeq(all, 1, Min({k, Len(all)}))

Recommended(budget, k) ==
  LET fits == FitsBudget(budget)
      first == fits \cap {DefaultModel}
      strongest == {m \in fits : \A n \in fits : Catalog[n].tier <= Catalog[m].tier} \ first
      all == BySpeed(first) \o BySpeed(strongest) \o BySpeed(fits \ (first \cup strongest))
  IN SubSeq(all, 1, Min({k, Len(all)}))

SmallestModel ==
  CHOOSE m \in Gguf : \A n \in Gguf :
    RamNeeded(m, Catalog[m].default) <= RamNeeded(n, Catalog[n].default)

(* What litmoe init writes: at most three.                                 *)
Picks(machine) ==
  IF machine.ram = Unknown THEN <<DefaultModel>>
  ELSE LET fit == Recommended(Budget(machine.ram, machine.mac), 3)
       IN IF fit = <<>> THEN <<SmallestModel>> ELSE fit
===============================================================================
