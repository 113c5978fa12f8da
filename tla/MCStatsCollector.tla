--------------------------- MODULE MCStatsCollector ---------------------------
(***************************************************************************)
(* Small instances of StatsCollector for TLC.                              *)
(***************************************************************************)
EXTENDS StatsCollector, TLC
=============================================================================
