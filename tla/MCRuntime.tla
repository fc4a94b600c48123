----------------------------- MODULE MCRuntime -----------------------------
(* Small instances of Runtime for TLC: one process handle per model, or    *)
(* two of the same model where a process may outlive its handle.           *)
EXTENDS RuntimeProperties, TLC

CONSTANTS r1, r2, r3, s1, s2, one, two, three, p1, p2, p3, none

OneProcOfThree == p1 :> one @@ p2 :> two @@ p3 :> three
OneProcEach == p1 :> one @@ p2 :> two
TwoOfOne == p1 :> one @@ p2 :> one

EveryMode == one :> "stream-disconnect" @@ two :> "restart" @@ three :> "prefill-chunked"
WarpAndCooperative == one :> "stream-disconnect" @@ two :> "prefill-chunked"
OnlyRestart == one :> "restart"

(* No property and no operator tells two of a kind apart.                  *)
Callers == Permutations(Request) \cup Permutations(Switcher)
============================================================================
