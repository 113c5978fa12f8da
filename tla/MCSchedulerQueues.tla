------------------------- MODULE MCSchedulerQueues -------------------------
(***************************************************************************)
(* Small instances of SchedulerQueues for TLC.                             *)
(***************************************************************************)
EXTENDS SchedulerQueues, TLC

CONSTANTS d1, d2, fast

\* One domain is configured and the other blacklisted; or the first is left out, and the
\* other one's scale is 0.
TwoConfigs ==
    { [domains |-> d1 :> fast @@ d2 :> Unset, blacklist |-> {d2}],
      [domains |-> d1 :> Unset @@ d2 :> Broken, blacklist |-> Unset] }
=============================================================================
