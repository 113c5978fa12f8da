--------------------------- MODULE MCRedisMonitor ---------------------------
(***************************************************************************)
(* Small instances of RedisMonitor for TLC: one key of a plugin that acts  *)
(* at once (stop) and one of the expire plugin.  Monitors are alike.       *)
(***************************************************************************)
EXTENDS RedisMonitor, TLC

MonitorSymmetry == Permutations(Monitors)
=============================================================================
