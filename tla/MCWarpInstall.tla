---------------------------- MODULE MCWarpInstall ----------------------------
(* Small instances of WarpInstall for TLC.                                 *)
EXTENDS WarpInstall, TLC

CONSTANTS i1, i2, s1, s2

(* No property and no operator tells installers or shards apart.           *)
Interchangeable == Permutations(Installer) \cup Permutations(Shard)
===============================================================================
