----------------------------- MODULE MCEnginePids -----------------------------
(* A small instance of EnginePids for TLC.                                 *)
EXTENDS EnginePids, TLC

CONSTANTS g1, m1, m2, p1, p2, t1, t2

(* No property and no operator tells two of a kind apart.                  *)
Interchangeable ==
  Permutations(Model) \cup Permutations(Pid) \cup Permutations(Thread)
===============================================================================
