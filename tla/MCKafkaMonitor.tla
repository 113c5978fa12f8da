---------------------------- MODULE MCKafkaMonitor ----------------------------
(***************************************************************************)
(* Small instances of KafkaMonitor for TLC.                                *)
(***************************************************************************)
EXTENDS KafkaMonitor, TLC
=============================================================================
