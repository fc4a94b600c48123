--------------------------- MODULE MCRuntimeCutover ---------------------------
(* Small instances of RuntimeCutover for TLC.                              *)
EXTENDS RuntimeCutover, TLC

CONSTANTS i1, i2, i3
===============================================================================
