---------------------------- MODULE MCEngineStart -----------------------------
(* A small instance of EngineStart for TLC: five models of the catalog, one *)
(* that it does not know, and machines from too small to ample.            *)
EXTENDS EngineStart

CONSTANTS small, fast, big, huge, waste, other, q2, q4, q8

Gguf4(native, rate, sizes, default, tier, active) ==
  [format |-> "gguf", native |-> native, rate |-> rate, sizes |-> sizes,
   default |-> default, tier |-> tier, active |-> active]

MCCatalog ==
  [m \in {small, fast, big, huge, waste} |->
     CASE m = small -> Gguf4(64, 1, [q \in {q4, q8} |-> IF q = q4 THEN 4 ELSE 9], q4, 16, 3)
       [] m = fast -> Gguf4(12, 1, [q \in {q4} |-> 3], q4, 16, 1)
       [] m = big -> Gguf4(128, 2, [q \in {q2, q4, q8} |-> IF q = q2 THEN 6 ELSE IF q = q4 THEN 12 ELSE 22],
                           q4, 24, 2)
       [] m = huge -> Gguf4(30, 3, [q \in {q2, q4} |-> IF q = q2 THEN 12 ELSE 19], q4, 48, 9)
       [] m = waste -> [Gguf4(22, 1, [q \in {q4} |-> 40], q4, 48, 1) EXCEPT !.format = "waste"]]

MCMachine == [ram : {6, 8, 16, 20, 32, 40}, mac : BOOLEAN] \cup [ram : {Unknown}, mac : {FALSE}]

(* Memory that grows by the token, by the block, and in leaps.             *)
MCPlan ==
  LET C == 1..128 IN
  {[c \in C |-> 10 + c], [c \in C |-> 20 + 4 * (c \div 4)], [c \in C |-> IF c < 9 THEN 5 ELSE IF c < 17 THEN 21 ELSE 60]}
===============================================================================
