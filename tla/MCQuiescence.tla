----------------------------- MODULE MCQuiescence -----------------------------
(* A small instance of Quiescence for TLC.                                 *)
EXTENDS Quiescence
===============================================================================
