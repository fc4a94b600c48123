----------------------------- MODULE MCModelsFile -----------------------------
(* A small instance of ModelsFile for TLC: one model of each kind, and the  *)
(* contexts 0 (automatic), 1 (sane) and 2 (what fits; WARP's old default).  *)
(* The WARP model is called what Claude Code asks for, and the name of the  *)
(* other one may be an alias.                                               *)
EXTENDS ModelsFile, TLC

CONSTANTS llama, sonnet, g1, c1, c2

MCEngine == [m \in Model |-> IF m = llama THEN "llamacpp" ELSE "warp"]
MCFit == [m \in Model |-> [c \in Ctx |-> IF c = 0 THEN 2 ELSE c]]
Interchangeable == Permutations(Command)
MCPicks == <<[id |-> llama, ctx |-> 0, auto |-> "unset", aliases |-> Claude]>>
===============================================================================
