---------------------------- MODULE MCLlamaInstall ----------------------------
(* A small instance of LlamaInstall for TLC.                               *)
EXTENDS LlamaInstall

CONSTANTS i1, i2
Interchangeable == Permutations(Command)
===============================================================================
