-------------------------- MODULE MCZookeeperConfig --------------------------
(***************************************************************************)
(* Small instances of ZookeeperConfig for TLC.  One of its properties is a *)
(* liveness property, so the likeness of monitors is not made use of.      *)
(***************************************************************************)
EXTENDS ZookeeperConfig, TLC
=============================================================================
