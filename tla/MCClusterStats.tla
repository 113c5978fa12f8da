--------------------------- MODULE MCClusterStats ---------------------------
(***************************************************************************)
(* Small instances of ClusterStats for TLC.  Machines are interchangeable, *)
(* and so are types of spiders: no action or property names one of them.   *)
(***************************************************************************)
EXTENDS ClusterStats, TLC

ClusterSymmetry == Permutations(Machines) \cup Permutations(Spiders)
=============================================================================
